---------------------------- MODULE Spec2Model ----------------------------
(* Contact-form function netlify/functions/send-email.mjs: the rate       *)
(* limiter, the reCAPTCHA verifier, the SMTP delivery and the handler     *)
(* that sequences them.  Times are epoch milliseconds.  reCAPTCHA scores  *)
(* (JavaScript numbers in 0.0 .. 1.0) are written in thousandths, so 0.5  *)
(* is 500 and 1.0 is 1000.                                                *)
EXTENDS Integers, Sequences, FiniteSets, TLC

\* ------------------------------------------------------------ constants
RATE_LIMIT_WINDOW == 3600000
MAX_REQUESTS_PER_WINDOW == 5
\* 0.5 in thousandths (handleRecaptchaFailure)
SCORE_THRESHOLD == 500
\* 1.0 in thousandths (validateRecaptcha without a secret)
SCORE_ONE == 1000

\* ------------------------------------------------------------ bounds
\* number of clock advances in a behaviour of the limiter workload
MaxTicks == 3
\* number of clock advances in a behaviour of the other workloads
FewTicks == 1
\* number of submissions that can be in flight on forms the page no longer
\* shows
MaxDetached == 1

\* ------------------------------------------------------------ JS values
\* the JavaScript value undefined (an absent property, an unset variable)
Undefined == "<undefined>"
\* a number that is absent (score)
NoNumber == -1
\* !v for the string-or-undefined values of this program
Falsy(v) == v = Undefined \/ v = ""
\* !n for a number-or-undefined value: undefined and 0 are falsy
FalsyNumber(n) == n = NoNumber \/ n = 0

\* ------------------------------------------------------------ rendering
Digit(d) == CASE d = 0 -> "0" [] d = 1 -> "1" [] d = 2 -> "2" [] d = 3 -> "3"
              [] d = 4 -> "4" [] d = 5 -> "5" [] d = 6 -> "6" [] d = 7 -> "7"
              [] d = 8 -> "8" [] OTHER -> "9"
\* n written with exactly w decimal digits
RECURSIVE Pad(_, _)
Pad(n, w) == IF w = 0 THEN "" ELSE Pad(n \div 10, w - 1) \o Digit(n % 10)
\* Number.prototype.toString for a non-negative integer
RECURSIVE NumberToString(_)
NumberToString(n) == IF n < 10 THEN Digit(n)
                     ELSE NumberToString(n \div 10) \o Digit(n % 10)

\* Date.prototype.toISOString: the proleptic Gregorian UTC date of an epoch
\* millisecond count ms >= 0, as YYYY-MM-DDTHH:mm:ss.sssZ
\* (the clock of the model starts at the epoch and stays below 2^31 ms)
DaysToCivil(days) ==
  LET z == days + 719468
      era == z \div 146097
      doe == z - era * 146097
      yoe == (doe - doe \div 1460 + doe \div 36524 - doe \div 146096) \div 365
      doy == doe - (365 * yoe + yoe \div 4 - yoe \div 100)
      mp == (5 * doy + 2) \div 153
      d == doy - (153 * mp + 2) \div 5 + 1
      m == IF mp < 10 THEN mp + 3 ELSE mp - 9
      y == yoe + era * 400 + (IF m <= 2 THEN 1 ELSE 0)
  IN [year |-> y, month |-> m, day |-> d]
toISOString(ms) ==
  LET date == DaysToCivil(ms \div 86400000)
      rest == ms % 86400000
  IN Pad(date.year, 4) \o "-" \o Pad(date.month, 2) \o "-" \o Pad(date.day, 2)
       \o "T" \o Pad(rest \div 3600000, 2) \o ":" \o Pad((rest \div 60000) % 60, 2)
       \o ":" \o Pad((rest \div 1000) % 60, 2) \o "." \o Pad(rest % 1000, 3) \o "Z"

\* JSON.stringify of a string without characters that need escaping
JSONString(s) == "\"" \o s \o "\""
\* JSON.stringify of an object given as a sequence of <<key, JSON text>>
RECURSIVE JSONMembers(_)
JSONMembers(ms) ==
  IF ms = <<>> THEN ""
  ELSE JSONString(ms[1][1]) \o ":" \o ms[1][2]
         \o (IF Len(ms) > 1 THEN "," ELSE "") \o JSONMembers(Tail(ms))
JSONObject(ms) == "{" \o JSONMembers(ms) \o "}"

\* ------------------------------------------------------------ responses
NoHeaders == [k \in {} |-> ""]
\* { ...a, ...b }: the keys of both, b's value where both have the key
Spread(a, b) ==
  [k \in DOMAIN a \cup DOMAIN b |-> IF k \in DOMAIN b THEN b[k] ELSE a[k]]

getCorsHeaders ==
  [k \in {"Access-Control-Allow-Origin", "Access-Control-Allow-Headers",
          "Access-Control-Allow-Methods"} |->
     CASE k = "Access-Control-Allow-Origin" -> "*"
       [] k = "Access-Control-Allow-Headers" -> "Content-Type"
       [] OTHER -> "POST, OPTIONS"]

\* variant: extra headers take the place of the CORS headers
buildResponseExtraOnly(statusCode, json, extraHeaders) ==
  [statusCode |-> statusCode,
   headers |-> IF extraHeaders = NoHeaders THEN getCorsHeaders ELSE extraHeaders,
   body |-> json]
\* body is JSON.stringify(data); the callers pass data already rendered
buildResponse(statusCode, json, extraHeaders) ==
  [statusCode |-> statusCode,
   headers |-> Spread(getCorsHeaders, extraHeaders),
   body |-> json]

\* details is a string or Undefined (null); a falsy details adds no member
buildErrorResponse(statusCode, error, details) ==
  buildResponse(statusCode,
    JSONObject(<<<<"error", JSONString(error)>>>>
               \o (IF Falsy(details) THEN <<>>
                   ELSE <<<<"details", JSONString(details)>>>>)),
    NoHeaders)

buildSuccessResponse(members) == buildResponse(200, JSONObject(members), NoHeaders)

\* no response yet (the handler has not returned)
NoResponse == [statusCode |-> 0, headers |-> NoHeaders, body |-> ""]

\* ------------------------------------------------------------ rate limiter
\* variant: a client without a key is given the requests of another
StoreGetAny(store, ip) ==
  IF ip \in DOMAIN store THEN store[ip]
  ELSE IF DOMAIN store # {} THEN store[CHOOSE k \in DOMAIN store : TRUE]
  ELSE <<>>
\* rateLimitStore.get(ip) || []
StoreGet(store, ip) == IF ip \in DOMAIN store THEN store[ip] ELSE <<>>
\* rateLimitStore.set(ip, requests)
\* variant: the map is replaced, the other keys are gone
StoreSetOnly(store, ip, requests) == [k \in {ip} |-> requests]
StoreSet(store, ip, requests) ==
  [k \in DOMAIN store \cup {ip} |-> IF k = ip THEN requests ELSE store[k]]

\* variant: a timestamp exactly one window old still counts
InWindowInclusive(timestamp, now) == now - timestamp <= RATE_LIMIT_WINDOW
InWindow(timestamp, now) == now - timestamp < RATE_LIMIT_WINDOW
\* variant: nothing is filtered out
cleanOldRequestsKeep(requests, now) == requests
cleanOldRequests(requests, now) ==
  SelectSeq(requests, LAMBDA timestamp : InWindow(timestamp, now))

\* variant: the limit is exceeded only above the maximum
isRateLimitExceededAbove(recentRequests) ==
  Len(recentRequests) > MAX_REQUESTS_PER_WINDOW
isRateLimitExceeded(recentRequests) ==
  Len(recentRequests) >= MAX_REQUESTS_PER_WINDOW

\* the pushed array, which is also what the store then holds under ip
Pushed(recentRequests, now) == Append(recentRequests, now)
\* variant: the store is given the new timestamp alone
updateRateLimitStoreAlone(store, ip, recentRequests, now) ==
  StoreSet(store, ip, <<now>>)
updateRateLimitStore(store, ip, recentRequests, now) ==
  StoreSet(store, ip, Pushed(recentRequests, now))

\* variant: the reset time is taken from the newest counted request
RateLimitRejectedNewest(recentRequests) ==
  [allowed |-> FALSE, remaining |-> 0,
   resetTime |-> recentRequests[Len(recentRequests)] + RATE_LIMIT_WINDOW]
\* the result for a rejected request
RateLimitRejected(recentRequests) ==
  [allowed |-> FALSE, remaining |-> 0,
   resetTime |-> recentRequests[1] + RATE_LIMIT_WINDOW]
\* variant: remaining is what was left before this request
RateLimitAdmittedBefore(pushed, now) ==
  [allowed |-> TRUE, remaining |-> MAX_REQUESTS_PER_WINDOW - (Len(pushed) - 1),
   resetTime |-> now + RATE_LIMIT_WINDOW]
\* the result for an admitted request; pushed is recentRequests after push
RateLimitAdmitted(pushed, now) ==
  [allowed |-> TRUE, remaining |-> MAX_REQUESTS_PER_WINDOW - Len(pushed),
   resetTime |-> now + RATE_LIMIT_WINDOW]

\* variant: a rejected request takes the place of the oldest counted one
checkRateLimitSliding(store, ip, now) ==
  LET userRequests == StoreGet(store, ip)
      recentRequests == cleanOldRequests(userRequests, now)
  IN IF isRateLimitExceeded(recentRequests)
     THEN [result |-> RateLimitRejected(recentRequests),
           store |-> StoreSet(store, ip, Append(Tail(recentRequests), now))]
     ELSE [result |-> RateLimitAdmitted(Pushed(recentRequests, now), now),
           store |-> updateRateLimitStore(store, ip, recentRequests, now)]
\* checkRateLimit(ip) at Date.now() = now: the result and the store after it
checkRateLimit(store, ip, now) ==
  LET userRequests == StoreGet(store, ip)
      recentRequests == cleanOldRequests(userRequests, now)
  IN IF isRateLimitExceeded(recentRequests)
     THEN [result |-> RateLimitRejected(recentRequests), store |-> store]
     ELSE [result |-> RateLimitAdmitted(Pushed(recentRequests, now), now),
           store |-> updateRateLimitStore(store, ip, recentRequests, now)]
NoRateLimit == [allowed |-> FALSE, remaining |-> -1, resetTime |-> -1]


\* ------------------------------------------------------------ reCAPTCHA
\* a verification result { success, score?, error? }
VerificationResult(success, score, error) ==
  [success |-> success, score |-> score, error |-> error]
NoResult == VerificationResult(FALSE, NoNumber, "<none>")

\* variant: only an absent token is refused, an empty one is sent on
validateRecaptchaEmptyToken(secretKey, token) ==
  IF Falsy(secretKey)
  THEN [fetch |-> FALSE, result |-> VerificationResult(TRUE, SCORE_ONE, Undefined)]
  ELSE IF token = Undefined
  THEN [fetch |-> FALSE, result |-> VerificationResult(FALSE, NoNumber, "Token missing")]
  ELSE [fetch |-> TRUE, result |-> NoResult]
\* variant: the token is tested before the secret
validateRecaptchaTokenFirst(secretKey, token) ==
  IF Falsy(token)
  THEN [fetch |-> FALSE, result |-> VerificationResult(FALSE, NoNumber, "Token missing")]
  ELSE IF Falsy(secretKey)
  THEN [fetch |-> FALSE, result |-> VerificationResult(TRUE, SCORE_ONE, Undefined)]
  ELSE [fetch |-> TRUE, result |-> NoResult]
\* validateRecaptcha(token) up to its first await: either the result it
\* returns without a call, or the outbound call to siteverify it issues
validateRecaptcha(secretKey, token) ==
  IF Falsy(secretKey)
  THEN [fetch |-> FALSE, result |-> VerificationResult(TRUE, SCORE_ONE, Undefined)]
  ELSE IF Falsy(token)
  THEN [fetch |-> FALSE, result |-> VerificationResult(FALSE, NoNumber, "Token missing")]
  ELSE [fetch |-> TRUE, result |-> NoResult]

\* variant: a failed call is treated like a missing secret
validateRecaptchaResumeOpen(outcome) ==
  IF outcome.threw
  THEN VerificationResult(TRUE, SCORE_ONE, outcome.message)
  ELSE outcome.data
\* callRecaptchaApi's outcome: the parsed JSON body, or what fetch() or
\* response.json() threw; validateRecaptcha returns the data or converts
\* the exception
validateRecaptchaResume(outcome) ==
  IF outcome.threw
  THEN VerificationResult(FALSE, NoNumber, outcome.message)
  ELSE outcome.data

\* variant: a score equal to the threshold is rejected
handleRecaptchaFailureStrict(score) ==
  IF FalsyNumber(score) \/ score > SCORE_THRESHOLD THEN NoResponse
  ELSE buildErrorResponse(403, "Suspicious activity detected", Undefined)
\* null (NoResponse) when the score is acceptable
handleRecaptchaFailure(score) ==
  IF FalsyNumber(score) \/ score >= SCORE_THRESHOLD THEN NoResponse
  ELSE buildErrorResponse(403, "Suspicious activity detected", Undefined)

\* ------------------------------------------------------------ validation
Fields == <<"name", "email", "subject", "message">>
Threw(message) == [threw |-> TRUE, message |-> message]
Returned == [threw |-> FALSE, message |-> ""]

\* JSON.parse(eventBody): a body is given by what it parses to; text that is
\* not JSON and an absent body (JSON.parse(undefined)) throw
parseRequestBody(eventBody) ==
  IF eventBody.kind \in {"malformed", "none"} THEN Threw("Invalid JSON") ELSE Returned

\* variant: the message field is not checked
validateFormDataNoMessage(data) ==
  IF data.kind = "null"
  THEN Threw("Cannot destructure property 'name' of 'data' as it is null.")
  ELSE IF Falsy(data.name) \/ Falsy(data.email) \/ Falsy(data.subject)
  THEN Threw("All fields required")
  ELSE Returned
\* destructuring null throws a TypeError; a falsy field throws the
\* validation error
validateFormData(data) ==
  IF data.kind = "null"
  THEN Threw("Cannot destructure property 'name' of 'data' as it is null.")
  ELSE IF Falsy(data.name) \/ Falsy(data.email) \/ Falsy(data.subject)
          \/ Falsy(data.message)
  THEN Threw("All fields required")
  ELSE Returned

RequiredEnv ==
  <<"SMTP_HOST", "SMTP_PORT", "SMTP_USER", "SMTP_PASS", "FROM_EMAIL", "TO_EMAIL">>
\* missing.join(", ")
RECURSIVE Join(_)
Join(keys) ==
  IF keys = <<>> THEN ""
  ELSE keys[1] \o (IF Len(keys) > 1 THEN ", " ELSE "") \o Join(Tail(keys))
MissingEnv(environment) ==
  SelectSeq(RequiredEnv, LAMBDA key : Falsy(environment[key]))
\* variant: the error names the first missing key only
checkEnvVariablesFirst(environment) ==
  LET missing == MissingEnv(environment)
  IN IF Len(missing) > 0 THEN Threw("Missing env vars: " \o missing[1])
     ELSE Returned
checkEnvVariables(environment) ==
  LET missing == MissingEnv(environment)
  IN IF Len(missing) > 0 THEN Threw("Missing env vars: " \o Join(missing))
     ELSE Returned

\* ------------------------------------------------------------ handlers
\* variant: client-ip is looked at first
getClientIPSecondFirst(headers) ==
  IF ~Falsy(headers["client-ip"]) THEN headers["client-ip"]
  ELSE IF ~Falsy(headers["x-forwarded-for"]) THEN headers["x-forwarded-for"]
  ELSE "unknown"
getClientIP(headers) ==
  IF ~Falsy(headers["x-forwarded-for"]) THEN headers["x-forwarded-for"]
  ELSE IF ~Falsy(headers["client-ip"]) THEN headers["client-ip"]
  ELSE "unknown"

\* null (NoResponse) for a POST
\* variant: only GET is turned away
validateHttpMethodGetOnly(method) ==
  IF method = "OPTIONS" THEN buildResponse(200, JSONString(""), NoHeaders)
  ELSE IF method = "GET"
  THEN buildErrorResponse(405, "Method not allowed", Undefined)
  ELSE NoResponse
validateHttpMethod(method) ==
  IF method = "OPTIONS" THEN buildResponse(200, JSONString(""), NoHeaders)
  ELSE IF method # "POST"
  THEN buildErrorResponse(405, "Method not allowed", Undefined)
  ELSE NoResponse

\* variant: the Remaining header repeats the limit
handleRateLimitExceededRemaining(resetTime) ==
  buildResponse(429,
    JSONObject(<<<<"error", JSONString("Too many requests. Please try again later.")>>,
                 <<"resetTime", JSONString(toISOString(resetTime))>>>>),
    [k \in {"X-RateLimit-Limit", "X-RateLimit-Remaining", "X-RateLimit-Reset"} |->
       CASE k = "X-RateLimit-Limit" -> NumberToString(MAX_REQUESTS_PER_WINDOW)
         [] k = "X-RateLimit-Remaining" -> NumberToString(MAX_REQUESTS_PER_WINDOW)
         [] OTHER -> toISOString(resetTime)])
handleRateLimitExceeded(resetTime) ==
  buildResponse(429,
    JSONObject(<<<<"error", JSONString("Too many requests. Please try again later.")>>,
                 <<"resetTime", JSONString(toISOString(resetTime))>>>>),
    [k \in {"X-RateLimit-Limit", "X-RateLimit-Remaining", "X-RateLimit-Reset"} |->
       CASE k = "X-RateLimit-Limit" -> NumberToString(MAX_REQUESTS_PER_WINDOW)
         [] k = "X-RateLimit-Remaining" -> "0"
         [] OTHER -> toISOString(resetTime)])


\* ------------------------------------------------------------ e-mail
\* the two messages; html names the template that renders it
getMailOptions(formData, environment) ==
  [from |-> environment["FROM_EMAIL"], to |-> environment["TO_EMAIL"],
   subject |-> "Contact Form: " \o formData.subject,
   html |-> "buildEmailHtml", replyTo |-> formData.email]
getConfirmationMailOptions(formData, environment) ==
  [from |-> environment["FROM_EMAIL"], to |-> formData.email,
   subject |-> "Message Received - Thank You for Contacting Me",
   html |-> "buildConfirmationEmailHtml", replyTo |-> Undefined]

\* ------------------------------------------------------------ invocations
\* One invocation of handler.  pc is the await it is suspended at; trace
\* lists, in order, the start and the outcome of every stage it ran;
\* fetchCalls counts the calls to siteverify, mails lists the sendMail calls.
NoBody ==
  [kind |-> "none", name |-> Undefined, email |-> Undefined, subject |-> Undefined,
   message |-> Undefined, recaptchaToken |-> Undefined]
RequestHeaders(forwardedFor, clientIp) ==
  [k \in {"x-forwarded-for", "client-ip"} |->
     IF k = "x-forwarded-for" THEN forwardedFor ELSE clientIp]
NoEvent ==
  [httpMethod |-> "<none>", headers |-> RequestHeaders(Undefined, Undefined),
   body |-> NoBody]
Idle ==
  [pc |-> "idle", event |-> NoEvent, trace |-> <<>>, response |-> NoResponse,
   clientIP |-> Undefined, rateLimitResult |-> NoRateLimit,
   recaptchaResult |-> NoResult, fetchPending |-> FALSE, fetchCalls |-> 0,
   transporter |-> FALSE, mails |-> <<>>, info |-> Undefined,
   transports |-> 0, sentVia |-> <<>>, messageIds |-> <<>>, responses |-> 0]

Begin(inv, stage) == [inv EXCEPT !.trace = Append(@, <<stage, "start">>)]
End(inv, stage, outcome) == [inv EXCEPT !.trace = Append(@, <<stage, outcome>>)]
Ran(inv, stage, outcome) == End(Begin(inv, stage), stage, outcome)
\* the handler returns response
Respond(inv, response) ==
  [inv EXCEPT !.pc = "done", !.response = response, !.responses = @ + 1]
\* variant: the error is thrown on, the invocation ends without a response
CaughtRethrown(inv, message) == [inv EXCEPT !.pc = "done"]
\* the catch block of handler
Caught(inv, message) ==
  Respond(inv, buildErrorResponse(500, "Internal server error", message))

\* sendEmail up to await transporter.verify(); transports counts the
\* transporters the invocation has created, the last one is the current one
sendEmail(inv) ==
  [Begin(inv, "relayVerify") EXCEPT
     !.transporter = TRUE, !.transports = @ + 1, !.pc = "awaitVerify"]

\* variant: a relay check that failed is made a second time
sendEmailVerifiedRetry(inv, outcome, environment) ==
  IF outcome.threw
  THEN IF \E n \in 1..Len(inv.trace) : inv.trace[n] = <<"relayVerify", "fail">>
       THEN Caught(End(inv, "relayVerify", "fail"), outcome.message)
       ELSE Begin(End(inv, "relayVerify", "fail"), "relayVerify")
  ELSE [Begin(End(inv, "relayVerify", "ok"), "sendNotification") EXCEPT
          !.pc = "awaitNotification", !.sentVia = Append(@, inv.transports),
          !.mails = Append(@, getMailOptions(inv.event.body, environment))]
\* sendEmail from the return of transporter.verify() to the first sendMail
sendEmailVerified(inv, outcome, environment) ==
  IF outcome.threw THEN Caught(End(inv, "relayVerify", "fail"), outcome.message)
  ELSE [Begin(End(inv, "relayVerify", "ok"), "sendNotification") EXCEPT
          !.pc = "awaitNotification", !.sentVia = Append(@, inv.transports),
          !.mails = Append(@, getMailOptions(inv.event.body, environment))]

\* variant: the confirmation is sent whether or not the notification was
sendEmailNotifiedAnyway(inv, outcome, environment) ==
  [Begin(End(inv, "sendNotification", IF outcome.threw THEN "fail" ELSE "ok"),
         "sendConfirmation") EXCEPT
     !.pc = "awaitConfirmation", !.info = outcome.messageId,
     !.sentVia = Append(@, inv.transports),
     !.mails = Append(@, getConfirmationMailOptions(inv.event.body, environment))]
\* sendEmail from the return of the first sendMail to the second
sendEmailNotified(inv, outcome, environment) ==
  IF outcome.threw THEN Caught(End(inv, "sendNotification", "fail"), outcome.message)
  ELSE [Begin(End(inv, "sendNotification", "ok"), "sendConfirmation") EXCEPT
          !.pc = "awaitConfirmation", !.info = outcome.messageId,
          !.sentVia = Append(@, inv.transports),
          !.mails = Append(@, getConfirmationMailOptions(inv.event.body, environment))]

\* variant: the failure of the confirmation is swallowed
sendEmailConfirmedQuiet(inv, outcome) ==
  Respond(End(inv, "sendConfirmation", IF outcome.threw THEN "fail" ELSE "ok"),
    buildSuccessResponse(<<<<"message", JSONString("Email sent successfully")>>,
                           <<"success", "true">>,
                           <<"messageId", JSONString(inv.info)>>>>))
\* variant: the identifier of the last send is reported
sendEmailConfirmedLastId(inv, outcome) ==
  IF outcome.threw THEN Caught(End(inv, "sendConfirmation", "fail"), outcome.message)
  ELSE Respond(End(inv, "sendConfirmation", "ok"),
         buildSuccessResponse(<<<<"message", JSONString("Email sent successfully")>>,
                                <<"success", "true">>,
                                <<"messageId", JSONString(outcome.messageId)>>>>))
\* sendEmail from the return of the second sendMail, and the rest of
\* processEmailRequest
sendEmailConfirmed(inv, outcome) ==
  IF outcome.threw THEN Caught(End(inv, "sendConfirmation", "fail"), outcome.message)
  ELSE Respond(End(inv, "sendConfirmation", "ok"),
         buildSuccessResponse(<<<<"message", JSONString("Email sent successfully")>>,
                                <<"success", "true">>,
                                <<"messageId", JSONString(inv.info)>>>>))

\* processEmailRequest up to await validateRecaptcha(...)
processEmailRequest(inv, body, environment) ==
  LET call == validateRecaptcha(environment["RECAPTCHA_SECRET_KEY"], body.recaptchaToken)
  IN [Begin(inv, "verify") EXCEPT
        !.pc = "awaitRecaptcha", !.fetchPending = call.fetch,
        !.fetchCalls = @ + (IF call.fetch THEN 1 ELSE 0),
        !.recaptchaResult = call.result]

\* variant: only the score is looked at, success is not
processEmailRequestVerifiedScoreOnly(inv, recaptchaResult, environment) ==
  LET i1 == [inv EXCEPT !.recaptchaResult = recaptchaResult, !.fetchPending = FALSE]
      recaptchaError == handleRecaptchaFailure(recaptchaResult.score)
  IN IF recaptchaError # NoResponse
     THEN Respond(End(i1, "verify", "fail"), recaptchaError)
     ELSE LET configured == checkEnvVariables(environment)
              i2 == Begin(End(i1, "verify", "ok"), "config")
          IN IF configured.threw
             THEN Caught(End(i2, "config", "fail"), configured.message)
             ELSE sendEmail(End(i2, "config", "ok"))
\* variant: a failed verification does not return, the request goes on to
\* the configuration check
processEmailRequestVerifiedNoReturn(inv, recaptchaResult, environment) ==
  LET i1 == [inv EXCEPT !.recaptchaResult = recaptchaResult, !.fetchPending = FALSE]
      verified == recaptchaResult.success
                    /\ handleRecaptchaFailure(recaptchaResult.score) = NoResponse
      configured == checkEnvVariables(environment)
      i2 == Begin(End(i1, "verify", IF verified THEN "ok" ELSE "fail"), "config")
  IN IF configured.threw
     THEN Caught(End(i2, "config", "fail"), configured.message)
     ELSE sendEmail(End(i2, "config", "ok"))
\* processEmailRequest from the verification result to sendEmail
processEmailRequestVerified(inv, recaptchaResult, environment) ==
  LET i1 == [inv EXCEPT !.recaptchaResult = recaptchaResult, !.fetchPending = FALSE]
  IN IF ~recaptchaResult.success
     THEN Respond(End(i1, "verify", "fail"),
            buildErrorResponse(403, "reCAPTCHA validation failed", Undefined))
     ELSE LET recaptchaError == handleRecaptchaFailure(recaptchaResult.score)
          IN IF recaptchaError # NoResponse
             THEN Respond(End(i1, "verify", "fail"), recaptchaError)
             ELSE LET configured == checkEnvVariables(environment)
                      i2 == Begin(End(i1, "verify", "ok"), "config")
                  IN IF configured.threw
                     THEN Caught(End(i2, "config", "fail"), configured.message)
                     ELSE sendEmail(End(i2, "config", "ok"))

\* variant: a request whose body is rejected gets its slot back
handlePostRequestRefund(inv, event, store, now, environment) ==
  LET clientIP == getClientIP(event.headers)
      checked == checkRateLimit(store, clientIP, now)
      i1 == [Begin(inv, "rateLimit") EXCEPT
               !.clientIP = clientIP, !.rateLimitResult = checked.result]
  IN IF ~checked.result.allowed
     THEN [inv |-> Respond(End(i1, "rateLimit", "fail"),
                     handleRateLimitExceeded(checked.result.resetTime)),
           store |-> checked.store]
     ELSE LET parsed == parseRequestBody(event.body)
              i2 == Begin(End(i1, "rateLimit", "ok"), "parse")
          IN IF parsed.threw
             THEN [store |-> store,
                   inv |-> Caught(End(i2, "parse", "fail"), parsed.message)]
             ELSE LET valid == validateFormData(event.body)
                      i3 == Begin(End(i2, "parse", "ok"), "validate")
                  IN IF valid.threw
                     THEN [store |-> store,
                           inv |-> Caught(End(i3, "validate", "fail"), valid.message)]
                     ELSE [store |-> checked.store,
                           inv |-> processEmailRequest(End(i3, "validate", "ok"),
                                                       event.body, environment)]
\* handlePostRequest up to the first await; the invocation and the store
handlePostRequest(inv, event, store, now, environment) ==
  LET clientIP == getClientIP(event.headers)
      checked == checkRateLimit(store, clientIP, now)
      i1 == [Begin(inv, "rateLimit") EXCEPT
               !.clientIP = clientIP, !.rateLimitResult = checked.result]
  IN IF ~checked.result.allowed
     THEN [inv |-> Respond(End(i1, "rateLimit", "fail"),
                     handleRateLimitExceeded(checked.result.resetTime)),
           store |-> checked.store]
     ELSE LET parsed == parseRequestBody(event.body)
              i2 == Begin(End(i1, "rateLimit", "ok"), "parse")
          IN [store |-> checked.store,
              inv |-> IF parsed.threw
                      THEN Caught(End(i2, "parse", "fail"), parsed.message)
                      ELSE LET valid == validateFormData(event.body)
                               i3 == Begin(End(i2, "parse", "ok"), "validate")
                           IN IF valid.threw
                              THEN Caught(End(i3, "validate", "fail"), valid.message)
                              ELSE processEmailRequest(End(i3, "validate", "ok"),
                                                       event.body, environment)]

\* variant: the rate limiter is asked before the method is looked at
handlerLimitFirst(event, store, now, environment) ==
  LET methodError == validateHttpMethod(event.httpMethod)
      i0 == Begin([Idle EXCEPT !.event = event], "method")
  IN IF methodError # NoResponse
     THEN [inv |-> Respond(End(i0, "method", "end"), methodError),
           store |-> checkRateLimit(store, getClientIP(event.headers), now).store]
     ELSE handlePostRequest(End(i0, "method", "ok"), event, store, now, environment)
\* handler(event) up to the first await
handler(event, store, now, environment) ==
  LET methodError == validateHttpMethod(event.httpMethod)
      i0 == Begin([Idle EXCEPT !.event = event], "method")
  IN IF methodError # NoResponse
     THEN [inv |-> Respond(End(i0, "method", "end"), methodError), store |-> store]
     ELSE handlePostRequest(End(i0, "method", "ok"), event, store, now, environment)


\* ------------------------------------------------------------ contact form
\* The submit handler of the page (handleFormSubmit).  The page is a record:
\* pc is the await the handler is suspended at, fields the values of the
\* four controls, status the #formStatus element, submitBtn the button,
\* requests and request the fetch calls of the current attempt; outcome
\* and submitted record how the attempt ended and what was submitted.
\* String.prototype.trim, for strings whose white space is the space
RECURSIVE TrimStart(_)
TrimStart(s) ==
  IF s = "" THEN ""
  ELSE IF SubSeq(s, 1, 1) = " " THEN TrimStart(SubSeq(s, 2, Len(s))) ELSE s
RECURSIVE TrimEnd(_)
TrimEnd(s) ==
  IF s = "" THEN ""
  ELSE IF SubSeq(s, Len(s), Len(s)) = " " THEN TrimEnd(SubSeq(s, 1, Len(s) - 1)) ELSE s
trim(s) == TrimEnd(TrimStart(s))

\* formData.get(f)?.trim(): a control that is not there gives undefined
extractFormData(formData) ==
  [f \in DOMAIN formData |->
     IF formData[f] = Undefined THEN Undefined ELSE trim(formData[f])]
isFormDataValid(data) ==
  ~Falsy(data["name"]) /\ ~Falsy(data["email"]) /\ ~Falsy(data["subject"])
    /\ ~Falsy(data["message"])

showError(status, message) ==
  [className |-> "form-status form-status--error",
   innerHTML |-> "<i class=\"fas fa-exclamation-circle\"></i> " \o message]
showSuccess(status) ==
  [className |-> "form-status form-status--success",
   innerHTML |-> "<i class=\"fas fa-check-circle\"></i> Message sent successfully!"]
clearStatus(status) == [className |-> "form-status", innerHTML |-> ""]
setLoadingState(btn, loading) ==
  IF loading
  THEN [innerHTML |-> "<i class=\"fas fa-spinner fa-spin\"></i> Sending...",
        disabled |-> TRUE]
  ELSE [innerHTML |-> "<i class=\"fas fa-paper-plane\"></i> Send Message",
        disabled |-> FALSE]
\* form.reset(): the controls go back to their empty default values
reset(fields) == [f \in DOMAIN fields |-> ""]

\* JSON.stringify({ ...data, recaptchaToken: token }); token is null or a string
RequestBody(data, token) ==
  JSONObject(<<<<"name", JSONString(data["name"])>>,
               <<"email", JSONString(data["email"])>>,
               <<"subject", JSONString(data["subject"])>>,
               <<"message", JSONString(data["message"])>>,
               <<"recaptchaToken",
                 IF token = Undefined THEN "null" ELSE JSONString(token)>>>>)

\* the form of HomePage as renderPage puts it into the document
FormLoaded ==
  [pc |-> "idle",
   fields |-> [f \in {"name", "email", "subject", "message"} |-> ""],
   data |-> [f \in {"name", "email", "subject", "message"} |-> Undefined],
   status |-> [className |-> "form-status", innerHTML |-> ""],
   submitBtn |-> [innerHTML |->
                    "\n            <i class=\"fas fa-paper-plane\"></i> Send Message\n          ",
                  disabled |-> FALSE],
   requests |-> 0, request |-> Undefined,
   response |-> [ok |-> FALSE, status |-> 0], outcome |-> "none",
   submitted |-> [f \in {"name", "email", "subject", "message"} |-> Undefined]]
\* a page without the form: getElementById('contactForm') is null
NoForm == [FormLoaded EXCEPT !.pc = "absent"]

\* finally { setLoadingState(submitBtn, false) }, the handler ends
handleFormSubmitFinally(page) ==
  [page EXCEPT !.submitBtn = setLoadingState(@, FALSE), !.pc = "idle"]
\* variant: the failure is shown, the button is left as it is
handleFormSubmitCatchOnly(page, message) ==
  [page EXCEPT !.status = showError(@, "Error: " \o message),
               !.outcome = "failed", !.pc = "idle"]
\* catch (error) { showError(...) } and then the finally block
handleFormSubmitCatch(page, message) ==
  handleFormSubmitFinally(
    [page EXCEPT !.status = showError(@, "Error: " \o message), !.outcome = "failed"])

\* handleFormSubmit up to await getRecaptchaToken(); formData is what the
\* controls hold when the form is submitted
handleFormSubmit(page, formData) ==
  LET data == extractFormData(formData)
      p0 == [page EXCEPT !.fields = formData, !.data = data, !.requests = 0,
                         !.request = Undefined, !.outcome = "none",
                         !.submitted = formData]
  IN IF ~isFormDataValid(data)
     THEN [p0 EXCEPT !.status = showError(@, "Please fill in all fields."),
                     !.outcome = "invalid"]
     ELSE [p0 EXCEPT !.submitBtn = setLoadingState(@, TRUE),
                     !.status = clearStatus(@), !.pc = "awaitToken"]

\* submitFormData from the token to the fetch: sendFormData(data, token)
sendFormData(page, token) ==
  [page EXCEPT !.pc = "awaitFetch", !.requests = @ + 1,
               !.request = RequestBody(page.data, token)]
\* the fetch settles: it rejects, or validateResponse awaits response.json()
submitFormDataFetched(page, outcome) ==
  IF outcome.threw THEN handleFormSubmitCatch(page, outcome.message)
  ELSE [page EXCEPT !.pc = "awaitJson", !.response = outcome.response]
\* validateResponse from the parsed body, showSuccess, and the finally block
validateResponse(page, outcome) ==
  IF outcome.threw THEN handleFormSubmitCatch(page, outcome.message)
  ELSE IF ~page.response.ok
  THEN handleFormSubmitCatch(page,
         IF ~Falsy(outcome.error) THEN outcome.error
         ELSE "Server error (" \o NumberToString(page.response.status) \o ")")
  ELSE handleFormSubmitFinally(
         [page EXCEPT !.status = showSuccess(@), !.fields = reset(@),
                      !.outcome = "success"])

\* ------------------------------------------------------------ theme toggle
\* theme-toggle.js.  stored is localStorage's item "theme" (Undefined when
\* there is none), colorScheme the style of the document root, icon the
\* #themeIcon image.
THEMES == [AUTO |-> "auto", LIGHT |-> "light", DARK |-> "dark"]
THEME_ICONS(theme) ==
  CASE theme = THEMES.AUTO -> "assets/scheme/scheme-device.svg"
    [] theme = THEMES.LIGHT -> "assets/scheme/scheme-light.svg"
    [] theme = THEMES.DARK -> "assets/scheme/scheme-dark.svg"
    [] OTHER -> Undefined
\* localStorage.getItem('theme') || THEMES.AUTO
getCurrentTheme(stored) == IF Falsy(stored) THEN THEMES.AUTO ELSE stored
\* cycle.indexOf(current), counted from 0, -1 when current is not in it
IndexOf(cycle, current) ==
  IF \E n \in 1..Len(cycle) : cycle[n] = current
  THEN (CHOOSE n \in 1..Len(cycle) :
          cycle[n] = current /\ \A m \in 1..(n - 1) : cycle[m] # current) - 1
  ELSE -1
\* variant: the cycle runs the other way
getNextThemeBackwards(current) ==
  LET cycle == <<THEMES.AUTO, THEMES.DARK, THEMES.LIGHT>>
      index == IndexOf(cycle, current)
  IN cycle[((index + 1) % Len(cycle)) + 1]
getNextTheme(current) ==
  LET cycle == <<THEMES.AUTO, THEMES.LIGHT, THEMES.DARK>>
      index == IndexOf(cycle, current)
  IN cycle[((index + 1) % Len(cycle)) + 1]
applyTheme(page, theme) ==
  [page EXCEPT !.colorScheme = IF theme = THEMES.AUTO THEN "light dark" ELSE theme]
updateIcon(page, theme) ==
  [page EXCEPT !.icon = [src |-> THEME_ICONS(theme), alt |-> theme \o " theme"]]
saveTheme(page, theme) == [page EXCEPT !.stored = theme]
\* the click handler; found is what it read from localStorage, recent the
\* current theme before the last three clicks and after each of them
\* the button and its icon as every page's markup has them
getThemeToggle ==
  [src |-> "assets/scheme/scheme-device.svg", alt |-> "Auto theme"]
handleThemeToggle(page) ==
  LET current == getCurrentTheme(page.stored)
      next == getNextTheme(current)
  IN [saveTheme(updateIcon(applyTheme(page, next), next), next) EXCEPT
        !.found = page.stored,
        !.recent = IF Len(@) < 4 THEN Append(@, next) ELSE Append(Tail(@), next)]
\* the document as first rendered, then initTheme and setupThemeToggle on
\* DOMContentLoaded; listening: the button in the document has the click
\* listener
initTheme(stored) ==
  LET theme == getCurrentTheme(stored)
      served == [stored |-> stored, colorScheme |-> "", icon |-> getThemeToggle,
                 listening |-> TRUE, found |-> Undefined, recent |-> <<theme>>]
  IN updateIcon(applyTheme(served, theme), theme)

\* ------------------------------------------------------------ router
\* the routes with a page of their own; every other path renders the 404
\* page
Routes == {"/", "/privacy-policy", "/sources", "/about", "/404"}
HasForm(path) == path = "/"
\* the submission of this form is suspended at an await
Pending(attempt) == attempt.pc \in {"awaitToken", "awaitFetch", "awaitJson"}
\* renderPage: app.innerHTML = pageComponent() puts new elements into the
\* document; initContactForm listens on the new form if the page has one.
\* A suspended handleFormSubmit keeps the elements it found when it began.
renderForm(path) == IF HasForm(path) THEN FormLoaded ELSE NoForm
renderDetached(current, site, path) ==
  [route |-> IF path \in Routes THEN path ELSE "/404",
   detached |-> IF Pending(current) THEN Append(site.detached, current)
                ELSE site.detached,
   ended |-> site.ended]
\* the new button has the icon of the markup and no click listener:
\* window.reinitThemeToggle is not a function
renderTheme(page) == [page EXCEPT !.icon = getThemeToggle, !.listening = FALSE]
\* the page after router.init()
SiteLoaded == [route |-> "/", detached |-> <<>>, ended |-> NoForm]

\* ------------------------------------------------------------ inputs
Methods == {"POST", "OPTIONS", "GET"}
\* event.httpMethod of the requests that are not submissions
OtherMethods == {"OPTIONS", "GET", "HEAD", "PUT", "PATCH", "DELETE", Undefined}
HeaderChoices ==
  {RequestHeaders(f, c) : f \in {Undefined, "203.0.113.7"},
                          c \in {Undefined, "198.51.100.9"}}
\* headers that are absent, empty, or a forwarding chain
ClientHeaderChoices ==
  {RequestHeaders(f, c) : f \in {Undefined, "", "203.0.113.7, 10.0.0.1"},
                          c \in {Undefined, "", "198.51.100.9"}}
ClientIds == {getClientIP(h) : h \in HeaderChoices \cup ClientHeaderChoices}

FormBody(name, email, subject, message, token) ==
  [kind |-> "object", name |-> name, email |-> email, subject |-> subject,
   message |-> message, recaptchaToken |-> token]
CompleteBody(token) == FormBody("Ada", "ada@example.org", "Hello", "Hi there", token)
\* a body that parses to an object whose field f is v
WithField(body, f, v) ==
  CASE f = "name" -> [body EXCEPT !.name = v]
    [] f = "email" -> [body EXCEPT !.email = v]
    [] f = "subject" -> [body EXCEPT !.subject = v]
    [] OTHER -> [body EXCEPT !.message = v]
Bodies ==
  {NoBody, [NoBody EXCEPT !.kind = "malformed"], [NoBody EXCEPT !.kind = "null"]}
    \cup {CompleteBody(token) : token \in {Undefined, "", "tok"}}
    \cup {WithField(CompleteBody("tok"), Fields[n], v) :
            n \in 1..Len(Fields), v \in {Undefined, ""}}
Events ==
  {[httpMethod |-> m, headers |-> h, body |-> b] :
     m \in Methods, h \in HeaderChoices, b \in Bodies}

\* process.env: every mail setting set, or some of them unset or empty
\* NODE_ENV is what the deployment runs as; the function does not read it
EnvKeys ==
  {RequiredEnv[n] : n \in 1..Len(RequiredEnv)} \cup {"RECAPTCHA_SECRET_KEY", "NODE_ENV"}
Environment(secret, unset, empty) ==
  [k \in EnvKeys |->
     IF k = "RECAPTCHA_SECRET_KEY" THEN secret
     ELSE IF k = "NODE_ENV" THEN "production"
     ELSE IF k \in unset THEN Undefined
     ELSE IF k \in empty THEN ""
     ELSE CASE k = "SMTP_HOST" -> "smtp.example.org" [] k = "SMTP_PORT" -> "465"
            [] k = "SMTP_USER" -> "mailer" [] k = "SMTP_PASS" -> "pass"
            [] k = "FROM_EMAIL" -> "form@example.org" [] OTHER -> "owner@example.org"]
Environments ==
  {Environment(secret, {}, {}) : secret \in {Undefined, "secret"}}
    \cup {Environment("secret", {"SMTP_PASS"}, {}),
          Environment(Undefined, {"SMTP_HOST"}, {"TO_EMAIL"}),
          [Environment(Undefined, {}, {}) EXCEPT !["NODE_ENV"] = "development"]}

\* what the siteverify call can come back with
Scores == {NoNumber, 0, 499, 500, 900}
\* fetch() rejects (transport), response.json() rejects (body is not JSON)
ApiFailures == {"fetch failed", "Unexpected token < in JSON at position 0"}
ApiOutcomes ==
  {[threw |-> TRUE, message |-> m, data |-> NoResult] : m \in ApiFailures}
    \cup {[threw |-> FALSE, message |-> "",
           data |-> VerificationResult(ok, score, Undefined)] :
            ok \in BOOLEAN, score \in Scores}
\* what transporter.verify() can come back with
RelayOutcomes ==
  {[threw |-> FALSE, message |-> ""],
   [threw |-> TRUE, message |-> "Invalid login"]}
\* what transporter.sendMail() can come back with
MessageIds == {"<m1@example.org>", "<m2@example.org>"}
SendOutcomes ==
  {[threw |-> TRUE, message |-> "Message rejected", messageId |-> Undefined]}
    \cup {[threw |-> FALSE, message |-> "", messageId |-> id] : id \in MessageIds}
\* Date.now() advances by one of these between two steps
Deltas == {1, RATE_LIMIT_WINDOW - 1}
Invocations == {"i1", "i2"}

\* what the visitor has typed into a control
ControlValues == {"", "  ", " Ada "}
FormDatas ==
  {[f \in {"name", "email", "subject", "message"} |->
      CASE f = "name" -> n [] f = "email" -> e [] f = "subject" -> s [] OTHER -> m] :
     n \in ControlValues \cup {Undefined}, e \in ControlValues,
     s \in ControlValues, m \in ControlValues}
\* getRecaptchaToken resolves to null or to a token
Tokens == {Undefined, "tok"}
\* fetch rejects, or resolves to a response
FetchOutcomes ==
  {[threw |-> TRUE, message |-> "Failed to fetch", response |-> [ok |-> FALSE, status |-> 0]]}
    \cup {[threw |-> FALSE, message |-> "", response |-> [ok |-> s = 200, status |-> s]] :
            s \in {200, 429, 500}}
\* response.json() rejects, or resolves to an object with or without error
JsonOutcomes ==
  {[threw |-> TRUE, message |-> "Unexpected token < in JSON at position 0",
    error |-> Undefined]}
    \cup {[threw |-> FALSE, message |-> "", error |-> e] :
            e \in {Undefined, "Too many requests. Please try again later."}}
\* the paths the visitor navigates to
Paths == {"/", "/about"}
\* localStorage's item "theme" when the page loads
StoredThemes == {Undefined, "", "auto", "light", "dark", "blue"}

\* A workload is what the clients of one run send and how long the run
\* lasts: "limiter" is one client sending complete submissions over several
\* windows, "pipeline" is every kind of request within one window, "config"
\* is a complete submission to deployments with mail settings missing,
\* "methods" is requests of every method but POST, from every kind of client,
\* "concurrent" is one client whose submissions overlap in time, "clients"
\* is requests with and without the headers that identify the client,
\* "form" is a visitor using the contact form of the page, "navigation" a
\* visitor who also follows the links of the page and "theme" a visitor
\* clicking the theme button and the links.
Workloads ==
  {"limiter", "pipeline", "config", "methods", "concurrent", "clients", "form",
   "navigation", "theme"}
LimiterHeaders == RequestHeaders("203.0.113.7", Undefined)
\* the invocations that can be in progress at once
WorkloadInvocations(w) ==
  IF w = "concurrent" THEN Invocations
  ELSE IF w \in {"form", "navigation", "theme"} THEN {}
  ELSE {"i1"}
WorkloadEvents(w) ==
  IF w \in {"limiter", "concurrent"}
  THEN {[httpMethod |-> "POST", headers |-> LimiterHeaders, body |-> CompleteBody(Undefined)]}
  ELSE IF w = "config"
  THEN {[httpMethod |-> "POST", headers |-> LimiterHeaders, body |-> CompleteBody("tok")]}
  ELSE IF w = "clients"
  THEN {[httpMethod |-> "POST", headers |-> h, body |-> [NoBody EXCEPT !.kind = "malformed"]] :
          h \in ClientHeaderChoices}
  ELSE IF w = "methods"
  THEN {[httpMethod |-> m, headers |-> h, body |-> b] :
          m \in OtherMethods, h \in HeaderChoices,
          b \in {NoBody, [NoBody EXCEPT !.kind = "malformed"], CompleteBody(Undefined)}}
  ELSE {e \in Events : e.headers = LimiterHeaders}
\* one mail setting unset or empty, two unset, all six unset
MailKeys == EnvKeys \ {"RECAPTCHA_SECRET_KEY", "NODE_ENV"}
IncompleteEnvironments ==
  {Environment(Undefined, {k}, {}) : k \in MailKeys}
    \cup {Environment("secret", {}, {k}) : k \in MailKeys}
    \cup {Environment("secret", {"SMTP_PORT", "FROM_EMAIL"}, {}),
          Environment(Undefined, MailKeys, {})}
WorkloadEnvironments(w) ==
  IF w \in {"limiter", "concurrent"} THEN {Environment(Undefined, {}, {})}
  ELSE IF w = "config" THEN IncompleteEnvironments
  ELSE IF w \in {"methods", "clients", "form", "navigation", "theme"}
  THEN {Environment("secret", {}, {})}
  ELSE Environments
\* the requests of "clients" and of "concurrent" arrive within one
\* millisecond
WorkloadTicks(w) ==
  IF w = "limiter" THEN MaxTicks
  ELSE IF w \in {"clients", "concurrent", "form", "navigation", "theme"} THEN 0
  ELSE FewTicks
\* what the visitor submits: in "navigation" a complete form or one without
\* a message
WorkloadFormDatas(w) ==
  IF w = "navigation"
  THEN {d \in FormDatas : /\ \A f \in {"name", "email", "subject"} : d[f] = " Ada "
                          /\ d["message"] \in {"", " Ada "}}
  ELSE FormDatas
\* in "navigation" reCAPTCHA gives a token
WorkloadTokens(w) == IF w = "navigation" THEN {"tok"} ELSE Tokens
WorkloadPaths(w) == IF w \in {"navigation", "theme"} THEN Paths ELSE {}

\* ------------------------------------------------------------ state
VARIABLES
  workload,        \* the workload of this run
  rateLimitStore,  \* the Map: client identifier -> array of timestamps
  clock,           \* Date.now()
  ticks,           \* how often the clock has advanced
  env,             \* process.env
  inv,             \* the invocations of handler
  admitted,        \* history: per client identifier, every admitted timestamp
  lastReset,       \* history: resetTime of the rejection a client has not
                   \* yet been admitted after, or -1
  seen,            \* history: per invocation, what checkRateLimit saw
  form,            \* the contact form of the page in the browser
  site,            \* the route shown, and the forms no longer in the document
                   \* whose submission is still in flight (ended: the last
                   \* of them that has ended)
  theme            \* the theme of the page in the browser
vars ==
  <<workload, rateLimitStore, clock, ticks, env, inv, admitted, lastReset, seen,
    form, site, theme>>

EmptyStore == [k \in {} |-> <<>>]
NotSeen == [at |-> -1, recent |-> -1, oldest |-> -1, reset |-> -1]
\* the admitted requests of client ip that are inside the window at now
AdmittedRecently(ip, now) ==
  SelectSeq(admitted[ip], LAMBDA t : now - t < RATE_LIMIT_WINDOW)
AdmittedInWindow(ip, now) == Len(AdmittedRecently(ip, now))
\* the least timestamp among them, -1 if there is none
OldestAdmitted(ip, now) ==
  LET recent == {AdmittedRecently(ip, now)[n] : n \in 1..AdmittedInWindow(ip, now)}
  IN IF recent = {} THEN -1 ELSE CHOOSE t \in recent : \A u \in recent : t <= u

Init ==
  /\ rateLimitStore = EmptyStore
  /\ clock = 0
  /\ ticks = 0
  /\ workload \in Workloads
  /\ env \in WorkloadEnvironments(workload)
  /\ inv = [i \in Invocations |-> Idle]
  /\ admitted = [ip \in ClientIds |-> <<>>]
  /\ lastReset = [ip \in ClientIds |-> -1]
  /\ seen = [i \in Invocations |-> NotSeen]
  /\ form = FormLoaded
  /\ site = SiteLoaded
  /\ theme \in {initTheme(stored) :
                  stored \in IF workload = "theme" THEN StoredThemes ELSE {Undefined}}

\* history: the message identifiers the relay has given to the sends of
\* the invocation, in the order of the sends
Delivered(invocation, outcome) ==
  IF outcome.threw THEN invocation
  ELSE [invocation EXCEPT !.messageIds = Append(@, outcome.messageId)]

\* a request arrives and handler runs to its first await or to its return
Start(i) ==
  /\ i \in WorkloadInvocations(workload)
  /\ inv[i].pc \in {"idle", "done"}
  /\ \E event \in WorkloadEvents(workload) :
     \E ran \in {handler(event, rateLimitStore, clock, env)} :
       LET ip == ran.inv.clientIP
           checked == ran.inv.rateLimitResult # NoRateLimit
       IN /\ inv' = [inv EXCEPT ![i] = ran.inv]
          /\ rateLimitStore' = ran.store
          /\ IF checked
             THEN /\ seen' = [seen EXCEPT ![i] =
                                [at |-> clock, recent |-> AdmittedInWindow(ip, clock),
                                 oldest |-> OldestAdmitted(ip, clock),
                                 reset |-> lastReset[ip]]]
                  /\ admitted' = IF ran.inv.rateLimitResult.allowed
                                 THEN [admitted EXCEPT ![ip] = Append(@, clock)]
                                 ELSE admitted
                  /\ lastReset' = [lastReset EXCEPT ![ip] =
                                     IF ran.inv.rateLimitResult.allowed THEN -1
                                     ELSE ran.inv.rateLimitResult.resetTime]
             ELSE /\ seen' = [seen EXCEPT ![i] = NotSeen]
                  /\ UNCHANGED <<admitted, lastReset>>
  /\ UNCHANGED <<form, site, theme, workload, clock, ticks, env>>

\* await validateRecaptcha(...) resumes
RecaptchaReturn(i) ==
  /\ inv[i].pc = "awaitRecaptcha"
  /\ \E outcome \in ApiOutcomes :
       LET result == IF inv[i].fetchPending THEN validateRecaptchaResume(outcome)
                     ELSE inv[i].recaptchaResult
       IN inv' = [inv EXCEPT ![i] = processEmailRequestVerified(inv[i], result, env)]
  /\ UNCHANGED <<form, site, theme, workload, rateLimitStore, clock, ticks, env, admitted, lastReset, seen>>

\* await transporter.verify() resumes
RelayVerifyReturn(i) ==
  /\ inv[i].pc = "awaitVerify"
  /\ \E outcome \in RelayOutcomes :
       inv' = [inv EXCEPT ![i] = sendEmailVerified(inv[i], outcome, env)]
  /\ UNCHANGED <<form, site, theme, workload, rateLimitStore, clock, ticks, env, admitted, lastReset, seen>>

\* await transporter.sendMail(mailOptions) resumes
NotificationReturn(i) ==
  /\ inv[i].pc = "awaitNotification"
  /\ \E outcome \in SendOutcomes :
       inv' = [inv EXCEPT ![i] = Delivered(sendEmailNotified(inv[i], outcome, env), outcome)]
  /\ UNCHANGED <<form, site, theme, workload, rateLimitStore, clock, ticks, env, admitted, lastReset, seen>>

\* await transporter.sendMail(confirmationOptions) resumes
ConfirmationReturn(i) ==
  /\ inv[i].pc = "awaitConfirmation"
  /\ \E outcome \in SendOutcomes :
       inv' = [inv EXCEPT ![i] = Delivered(sendEmailConfirmed(inv[i], outcome), outcome)]
  /\ UNCHANGED <<form, site, theme, workload, rateLimitStore, clock, ticks, env, admitted, lastReset, seen>>

\* time passes
Tick ==
  /\ ticks < WorkloadTicks(workload)
  /\ \E d \in Deltas : clock' = clock + d
  /\ ticks' = ticks + 1
  /\ UNCHANGED <<form, site, theme, workload, rateLimitStore, env, inv, admitted, lastReset, seen>>

\* the attempts: 0 is the form in the document, k > 0 the k-th form that
\* is no longer in it
Attempts == 0..MaxDetached
Attempt(k) == IF k = 0 THEN form ELSE site.detached[k]
\* the handler of attempt k has run to its next await or to its end; a
\* form outside the document whose handler has ended is referred to by
\* nothing
Resume(k, next) ==
  IF k = 0 THEN form' = next /\ site' = site
  ELSE /\ form' = form
       /\ site' = IF Pending(next) THEN [site EXCEPT !.detached[k] = next]
                  ELSE [site EXCEPT
                          !.detached = SubSeq(@, 1, k - 1) \o SubSeq(@, k + 1, Len(@)),
                          !.ended = next]

\* the visitor submits the form
Submit ==
  /\ workload \in {"form", "navigation"}
  /\ form.pc = "idle" /\ ~form.submitBtn.disabled
  /\ \E formData \in WorkloadFormDatas(workload) :
       form' = handleFormSubmit(form, formData)
  /\ UNCHANGED <<site, theme, workload, rateLimitStore, clock, ticks, env, inv, admitted,
                 lastReset, seen>>

\* await getRecaptchaToken() resumes
TokenReturn(k) ==
  /\ k <= Len(site.detached)
  /\ Attempt(k).pc = "awaitToken"
  /\ \E token \in WorkloadTokens(workload) : Resume(k, sendFormData(Attempt(k), token))
  /\ UNCHANGED <<theme, workload, rateLimitStore, clock, ticks, env, inv, admitted,
                 lastReset, seen>>

\* await sendFormData(data, token) resumes
FetchReturn(k) ==
  /\ k <= Len(site.detached)
  /\ Attempt(k).pc = "awaitFetch"
  /\ \E outcome \in FetchOutcomes : Resume(k, submitFormDataFetched(Attempt(k), outcome))
  /\ UNCHANGED <<theme, workload, rateLimitStore, clock, ticks, env, inv, admitted,
                 lastReset, seen>>

\* await response.json() resumes
JsonReturn(k) ==
  /\ k <= Len(site.detached)
  /\ Attempt(k).pc = "awaitJson"
  /\ \E outcome \in JsonOutcomes : Resume(k, validateResponse(Attempt(k), outcome))
  /\ UNCHANGED <<theme, workload, rateLimitStore, clock, ticks, env, inv, admitted,
                 lastReset, seen>>

\* the visitor clicks the theme button
ToggleTheme ==
  /\ workload = "theme"
  /\ theme.listening
  /\ theme' = handleThemeToggle(theme)
  /\ UNCHANGED <<form, site, workload, rateLimitStore, clock, ticks, env, inv, admitted,
                 lastReset, seen>>

\* the visitor follows a link or goes back: Router.loadRoute(path) runs
\* renderPage with the page of the route
Navigate(path) ==
  /\ path \in WorkloadPaths(workload)
  /\ Pending(form) => Len(site.detached) < MaxDetached
  /\ form' = renderForm(path)
  /\ site' = renderDetached(form, site, path)
  /\ theme' = renderTheme(theme)
  /\ UNCHANGED <<workload, rateLimitStore, clock, ticks, env, inv, admitted,
                 lastReset, seen>>

Next ==
  \/ \E i \in Invocations : Start(i)
  \/ \E i \in Invocations : RecaptchaReturn(i)
  \/ \E i \in Invocations : RelayVerifyReturn(i)
  \/ \E i \in Invocations : NotificationReturn(i)
  \/ \E i \in Invocations : ConfirmationReturn(i)
  \/ Tick
  \/ Submit
  \/ \E k \in Attempts : TokenReturn(k)
  \/ \E k \in Attempts : FetchReturn(k)
  \/ \E k \in Attempts : JsonReturn(k)
  \/ ToggleTheme
  \/ \E path \in Paths : Navigate(path)

Spec == Init /\ [][Next]_vars

\* every pending external call returns or fails: the await it is behind
\* resumes
Returns ==
  \A i \in Invocations :
    /\ WF_vars(RecaptchaReturn(i)) /\ WF_vars(RelayVerifyReturn(i))
    /\ WF_vars(NotificationReturn(i)) /\ WF_vars(ConfirmationReturn(i))
\* the same for the calls of the page
PageReturns ==
  \A k \in Attempts :
    WF_vars(TokenReturn(k)) /\ WF_vars(FetchReturn(k)) /\ WF_vars(JsonReturn(k))
LiveSpec == Spec /\ Returns /\ PageReturns


\* ------------------------------------------------------------ properties
Checked(i) == inv[i].rateLimitResult # NoRateLimit
Responded(i) == inv[i].pc = "done"
InTrace(i, stage, outcome) ==
  \E n \in 1..Len(inv[i].trace) : inv[i].trace[n] = <<stage, outcome>>

\* C1: for every client identifier, every window of RATE_LIMIT_WINDOW ms
\* (the one ending at the current clock, and the one starting at any
\* admitted request) holds at most 5 admitted requests.
C1_RateLimitBound ==
  \A ip \in ClientIds :
    /\ AdmittedInWindow(ip, clock) <= MAX_REQUESTS_PER_WINDOW
    /\ \A n \in 1..Len(admitted[ip]) :
         Len(SelectSeq(admitted[ip],
               LAMBDA t : t >= admitted[ip][n] /\ t - admitted[ip][n] < RATE_LIMIT_WINDOW))
           <= MAX_REQUESTS_PER_WINDOW
\* a client with a full window, more than 5 admissions over time, and a
\* request of it just rejected
C1_Witness ==
  \E i \in Invocations :
    /\ Checked(i) /\ ~inv[i].rateLimitResult.allowed
    /\ AdmittedInWindow(inv[i].clientIP, clock) = MAX_REQUESTS_PER_WINDOW
    /\ Len(admitted[inv[i].clientIP]) > MAX_REQUESTS_PER_WINDOW

\* C2: a rejected check returns allowed = false, remaining = 0 and
\* resetTime = the oldest of the 5 admitted timestamps still inside the
\* window + RATE_LIMIT_WINDOW.
C2_RejectedResult ==
  \A i \in Invocations :
    (Checked(i) /\ ~inv[i].rateLimitResult.allowed) =>
      /\ inv[i].rateLimitResult.remaining = 0
      /\ seen[i].recent = MAX_REQUESTS_PER_WINDOW
      /\ inv[i].rateLimitResult.resetTime = seen[i].oldest + RATE_LIMIT_WINDOW
\* a rejection whose 5 counted requests were admitted at different times,
\* after older ones had left the window
C2_Witness ==
  \E i \in Invocations :
    /\ Checked(i) /\ ~inv[i].rateLimitResult.allowed
    /\ seen[i].oldest > 0
    /\ \E n \in 1..Len(admitted[inv[i].clientIP]) :
         admitted[inv[i].clientIP][n] > seen[i].oldest

\* C3: once a client has been rejected with resetTime R, its checks before
\* R are rejected and its first check at or after R is admitted.
C3_WindowSliding ==
  \A i \in Invocations :
    (Checked(i) /\ seen[i].reset # -1) =>
      (inv[i].rateLimitResult.allowed <=> seen[i].at >= seen[i].reset)
\* a check made exactly at the reset time of an earlier rejection
C3_Witness ==
  \E i \in Invocations :
    /\ Checked(i) /\ seen[i].reset # -1 /\ seen[i].at = seen[i].reset
    /\ inv[i].rateLimitResult.allowed

\* C4: a POST that finds fewer than 5 admitted requests of its client in
\* the window passes the rate limit and is not answered 429; one that finds
\* 5 is answered 429 with X-RateLimit-Limit 5, X-RateLimit-Remaining 0 and
\* X-RateLimit-Reset equal to the resetTime of the body; no admitted
\* request is answered 429.
C4_SixthRequest ==
  \A i \in Invocations :
    Checked(i) =>
      /\ seen[i].recent < MAX_REQUESTS_PER_WINDOW =>
           /\ inv[i].rateLimitResult.allowed
           /\ InTrace(i, "rateLimit", "ok")
      /\ seen[i].recent >= MAX_REQUESTS_PER_WINDOW =>
           /\ inv[i].response.statusCode = 429
           /\ inv[i].response.headers["X-RateLimit-Limit"] = "5"
           /\ inv[i].response.headers["X-RateLimit-Remaining"] = "0"
           /\ inv[i].response.headers["X-RateLimit-Reset"]
                = toISOString(inv[i].rateLimitResult.resetTime)
           /\ inv[i].response.body =
                "{\"error\":\"Too many requests. Please try again later.\",\"resetTime\":\""
                  \o inv[i].response.headers["X-RateLimit-Reset"] \o "\"}"
      /\ inv[i].rateLimitResult.allowed => inv[i].response.statusCode # 429
      /\ (Responded(i) /\ inv[i].rateLimitResult.allowed) =>
           inv[i].response.statusCode \in {200, 400, 403, 500}
\* a sixth request of a client within the hour, answered 429
C4_Witness ==
  \E i \in Invocations :
    /\ Checked(i) /\ seen[i].recent = MAX_REQUESTS_PER_WINDOW
    /\ inv[i].response.statusCode = 429
    /\ Len(admitted[inv[i].clientIP]) = MAX_REQUESTS_PER_WINDOW

\* C5: the stages of an invocation run in the order method, rate limit,
\* parse, validate, verify, configuration, relay check, notification,
\* confirmation: a stage starts only right after its predecessor ended ok,
\* and a stage that did not end ok is the last one and ends the invocation.
StageOrder ==
  <<"method", "rateLimit", "parse", "validate", "verify", "config",
    "relayVerify", "sendNotification", "sendConfirmation">>
C5_StageOrder ==
  \A i \in Invocations :
    LET trace == inv[i].trace
    IN /\ \A n \in 1..Len(trace) :
            LET k == (n + 1) \div 2
            IN /\ k <= Len(StageOrder)
               /\ trace[n][1] = StageOrder[k]
               /\ (n % 2 = 1) <=> (trace[n][2] = "start")
               /\ (n % 2 = 0 /\ n < Len(trace)) => trace[n][2] = "ok"
               /\ (n % 2 = 0 /\ trace[n][2] # "ok") => Responded(i)
       /\ Responded(i) <=> inv[i].response # NoResponse
       /\ Responded(i) =>
            /\ Len(trace) > 0 /\ Len(trace) % 2 = 0
            /\ trace[Len(trace)][2] = "ok" => Len(trace) = 2 * Len(StageOrder)
       /\ (~Responded(i) /\ Len(trace) > 0) => trace[Len(trace)][2] = "start"
\* an invocation that ran every stage, and the verification and the
\* configuration check in particular
C5_Witness ==
  \E i \in Invocations :
    /\ Responded(i) /\ inv[i].response.statusCode = 200
    /\ Len(inv[i].trace) = 2 * Len(StageOrder)
    /\ inv[i].fetchCalls = 1

\* C6: a POST that passed the rate limit with a body that is not JSON is
\* answered 400 with the error "Invalid JSON".
C6_InvalidJson400 ==
  \A i \in Invocations :
    (Responded(i) /\ InTrace(i, "parse", "fail")) =>
      /\ inv[i].response.statusCode = 400
      /\ inv[i].response.body = "{\"error\":\"Invalid JSON\"}"

\* C7: a POST that passed the rate limit and whose parsed body lacks one of
\* name, email, subject, message is answered 400 with the error "All
\* fields required".
MissingField(body) ==
  body.kind = "object" /\ \E n \in 1..Len(Fields) :
    Falsy(CASE Fields[n] = "name" -> body.name [] Fields[n] = "email" -> body.email
            [] Fields[n] = "subject" -> body.subject [] OTHER -> body.message)
C7_MissingField400 ==
  \A i \in Invocations :
    (Responded(i) /\ InTrace(i, "rateLimit", "ok") /\ MissingField(inv[i].event.body)) =>
      /\ inv[i].response.statusCode = 400
      /\ inv[i].response.body = "{\"error\":\"All fields required\"}"

\* C8: an invocation whose submission lacks one of the four fields never
\* calls the verifier, never runs the configuration check, never creates a
\* transport and never sends a mail.
C8_MissingFieldStops ==
  \A i \in Invocations :
    MissingField(inv[i].event.body) =>
      /\ ~InTrace(i, "verify", "start") /\ inv[i].fetchCalls = 0
      /\ ~InTrace(i, "config", "start")
      /\ ~inv[i].transporter /\ inv[i].mails = <<>>
      /\ inv[i].pc \in {"idle", "done"}
\* an admitted POST with exactly the message missing, stopped at validation
C8_Witness ==
  \E i \in Invocations :
    /\ inv[i].event.body = WithField(CompleteBody("tok"), "message", Undefined)
    /\ InTrace(i, "validate", "fail")
    /\ env["RECAPTCHA_SECRET_KEY"] = "secret"

\* C9: a verification result with success = true and a score below 0.5
\* (0.0 included) is answered 403 "Suspicious activity detected", which is
\* not the message of success = false, and no mail is sent.
Verified(i) == inv[i].pc # "awaitRecaptcha" /\ InTrace(i, "verify", "start")
C9_LowScore403 ==
  \A i \in Invocations :
    (Verified(i) /\ inv[i].recaptchaResult.success
       /\ inv[i].recaptchaResult.score # NoNumber
       /\ inv[i].recaptchaResult.score < SCORE_THRESHOLD) =>
      /\ Responded(i)
      /\ inv[i].response.statusCode = 403
      /\ inv[i].response.body = "{\"error\":\"Suspicious activity detected\"}"
      /\ inv[i].response.body # "{\"error\":\"reCAPTCHA validation failed\"}"
      /\ inv[i].mails = <<>>

\* C10: a verification result with success = true and a score of exactly
\* 0.5, above 0.5, or absent is accepted: the invocation goes on to the
\* configuration check and is not answered 403.
C10_ScoreAccepted ==
  \A i \in Invocations :
    (Verified(i) /\ inv[i].recaptchaResult.success
       /\ (inv[i].recaptchaResult.score = NoNumber
             \/ inv[i].recaptchaResult.score >= SCORE_THRESHOLD)) =>
      /\ InTrace(i, "verify", "ok")
      /\ InTrace(i, "config", "start")
      /\ inv[i].response.statusCode # 403
\* a score of exactly 0.5 returned by the verification service, accepted
C10_Witness ==
  \E i \in Invocations :
    /\ inv[i].fetchCalls = 1 /\ Verified(i)
    /\ inv[i].recaptchaResult.success
    /\ inv[i].recaptchaResult.score = SCORE_THRESHOLD
    /\ InTrace(i, "config", "start")


\* C11: a verification result with success = false is answered 403
\* "reCAPTCHA validation failed" whatever its score, and neither the
\* configuration check nor the delivery runs.
C11_FailedVerification403 ==
  \A i \in Invocations :
    (Verified(i) /\ ~inv[i].recaptchaResult.success) =>
      /\ Responded(i)
      /\ inv[i].response.statusCode = 403
      /\ inv[i].response.body = "{\"error\":\"reCAPTCHA validation failed\"}"
      /\ ~InTrace(i, "config", "start")
      /\ ~inv[i].transporter /\ inv[i].mails = <<>>
\* the verification service answered success = false with a score of 0.9
C11_Witness ==
  \E i \in Invocations :
    /\ Verified(i) /\ inv[i].fetchCalls = 1
    /\ ~inv[i].recaptchaResult.success
    /\ inv[i].recaptchaResult.score >= SCORE_THRESHOLD
    /\ inv[i].response.statusCode = 403

\* C12 as stated: without a verification secret, validateRecaptcha gives
\* { success: true, score: 1.0 } for every token without an outbound call,
\* and the submission reaches the delivery stage.
Unconfigured(i) == InTrace(i, "validate", "ok") /\ Falsy(env["RECAPTCHA_SECRET_KEY"])
FailsOpen(i) ==
  /\ inv[i].fetchCalls = 0 /\ ~inv[i].fetchPending
  /\ inv[i].recaptchaResult = [success |-> TRUE, score |-> 1000, error |-> Undefined]
C12_FailOpenDelivers ==
  \A i \in Invocations :
    Unconfigured(i) =>
      /\ FailsOpen(i)
      /\ Verified(i) => InTrace(i, "relayVerify", "start")
\* C12 amended: without a verification secret, validateRecaptcha gives
\* { success: true, score: 1.0 } for every token without an outbound call,
\* and the submission goes on to the configuration check; it reaches the
\* delivery stage when all six mail settings are present.
C12_FailOpen ==
  \A i \in Invocations :
    Unconfigured(i) =>
      /\ FailsOpen(i)
      /\ Verified(i) =>
           /\ InTrace(i, "verify", "ok") /\ InTrace(i, "config", "start")
           /\ MissingEnv(env) = <<>> =>
                InTrace(i, "relayVerify", "start") /\ inv[i].transporter
\* a submission with a token, no secret configured, at the delivery stage
\* without any call to the verification service
C12_Witness ==
  \E i \in Invocations :
    /\ Unconfigured(i) /\ inv[i].event.body.recaptchaToken = "tok"
    /\ InTrace(i, "relayVerify", "start") /\ inv[i].fetchCalls = 0

\* C13: with a verification secret configured and the token absent or
\* empty, validateRecaptcha gives success = false without an outbound call
\* and the invocation is answered 403.
TokenMissing(i) ==
  /\ InTrace(i, "validate", "ok") /\ ~Falsy(env["RECAPTCHA_SECRET_KEY"])
  /\ Falsy(inv[i].event.body.recaptchaToken)
C13_FailClosed ==
  \A i \in Invocations :
    TokenMissing(i) =>
      /\ inv[i].fetchCalls = 0 /\ ~inv[i].fetchPending
      /\ inv[i].recaptchaResult = [success |-> FALSE, score |-> NoNumber,
                                   error |-> "Token missing"]
      /\ Verified(i) =>
           /\ Responded(i) /\ inv[i].response.statusCode = 403
           /\ inv[i].response.body = "{\"error\":\"reCAPTCHA validation failed\"}"
           /\ inv[i].mails = <<>>
\* a submission with an empty token, a secret configured, answered 403
C13_Witness ==
  \E i \in Invocations :
    /\ TokenMissing(i) /\ inv[i].event.body.recaptchaToken = ""
    /\ inv[i].response.statusCode = 403

\* C14: an invocation makes at most one call to the verification service,
\* and a call that fails in transport or in parsing its body gives
\* { success: false, error }: the invocation is answered 403, not 500, and
\* goes neither to the configuration check nor to delivery.
C14_CallFailureRejects ==
  \A i \in Invocations :
    /\ inv[i].fetchCalls <= 1
    /\ inv[i].fetchPending => inv[i].fetchCalls = 1 /\ inv[i].pc = "awaitRecaptcha"
    /\ (Verified(i) /\ inv[i].recaptchaResult.error \in ApiFailures) =>
         /\ ~inv[i].recaptchaResult.success
         /\ Responded(i) /\ inv[i].response.statusCode = 403
         /\ inv[i].response.body = "{\"error\":\"reCAPTCHA validation failed\"}"
         /\ ~InTrace(i, "config", "start")
         /\ ~inv[i].transporter /\ inv[i].mails = <<>>
\* the body of the verification service's answer could not be parsed
C14_Witness ==
  \E i \in Invocations :
    /\ Verified(i) /\ inv[i].fetchCalls = 1
    /\ inv[i].recaptchaResult.error = "Unexpected token < in JSON at position 0"
    /\ inv[i].response.statusCode = 403

\* the six settings in the order the code lists them, and the text that
\* names those of them that the deployment lacks
RECURSIVE NamedFrom(_)
NamedFrom(n) ==
  IF n > 6 THEN ""
  ELSE LET key == <<"SMTP_HOST", "SMTP_PORT", "SMTP_USER", "SMTP_PASS",
                    "FROM_EMAIL", "TO_EMAIL">>[n]
           rest == NamedFrom(n + 1)
       IN IF env[key] \in {Undefined, ""}
          THEN key \o (IF rest = "" THEN "" ELSE ", " \o rest)
          ELSE rest
SettingMissing == NamedFrom(1) # ""
\* C15: when a mail setting is missing, no transport is ever created and no
\* mail handed over, and a submission that passed verification is answered
\* 500 with an error that says "Missing env vars" and names every missing
\* key, without a connection to the relay being attempted.
C15_MissingSettings500 ==
  \A i \in Invocations :
    SettingMissing =>
      /\ ~inv[i].transporter /\ inv[i].mails = <<>>
      /\ ~InTrace(i, "relayVerify", "start")
      /\ InTrace(i, "verify", "ok") =>
           /\ Responded(i) /\ inv[i].response.statusCode = 500
           /\ inv[i].response.body =
                "{\"error\":\"Internal server error\",\"details\":\"Missing env vars: "
                  \o NamedFrom(1) \o "\"}"
\* all six settings are missing and the answer names the six
C15_Witness ==
  \E i \in Invocations :
    /\ InTrace(i, "verify", "ok") /\ Responded(i)
    /\ \A k \in MailKeys : env[k] = Undefined
    /\ inv[i].response.body =
         "{\"error\":\"Internal server error\",\"details\":\"Missing env vars: SMTP_HOST, SMTP_PORT, SMTP_USER, SMTP_PASS, FROM_EMAIL, TO_EMAIL\"}"

\* the place of the first <<stage, outcome>> in the trace, 0 if there is none
TracePos(i, stage, outcome) ==
  LET at == {n \in 1..Len(inv[i].trace) : inv[i].trace[n] = <<stage, outcome>>}
  IN IF at = {} THEN 0 ELSE CHOOSE n \in at : \A m \in at : n <= m
IsNotification(i, mail) ==
  /\ mail.to = env["TO_EMAIL"] /\ mail.replyTo = inv[i].event.body.email
  /\ mail.html = "buildEmailHtml"
IsConfirmation(i, mail) ==
  mail.to = inv[i].event.body.email /\ mail.html = "buildConfirmationEmailHtml"
\* C16: within an invocation, a message is handed to the relay only after
\* the relay check has succeeded; the first message is the notification,
\* the second the confirmation, and there is no third; the confirmation is
\* handed over only after the notification send succeeded, never after it
\* failed; every message goes through the one transport of the invocation.
C16_DeliveryOrder ==
  \A i \in Invocations :
    /\ Len(inv[i].mails) <= 2 /\ Len(inv[i].sentVia) = Len(inv[i].mails)
    /\ inv[i].transports <= 1
    /\ inv[i].mails # <<>> =>
         /\ TracePos(i, "relayVerify", "ok") > 0
         /\ TracePos(i, "relayVerify", "ok") < TracePos(i, "sendNotification", "start")
         /\ IsNotification(i, inv[i].mails[1]) /\ ~IsConfirmation(i, inv[i].mails[1])
    /\ InTrace(i, "relayVerify", "fail") => inv[i].mails = <<>>
    /\ Len(inv[i].mails) = 2 =>
         /\ IsConfirmation(i, inv[i].mails[2])
         /\ TracePos(i, "sendNotification", "ok") > 0
         /\ TracePos(i, "sendNotification", "ok") < TracePos(i, "sendConfirmation", "start")
    /\ InTrace(i, "sendNotification", "fail") =>
         Len(inv[i].mails) = 1 /\ ~InTrace(i, "sendConfirmation", "start")
    /\ \A n \in 1..Len(inv[i].sentVia) : inv[i].sentVia[n] = 1
\* both messages handed over, through the one transport
C16_Witness ==
  \E i \in Invocations :
    /\ Len(inv[i].mails) = 2 /\ inv[i].sentVia = <<1, 1>>
    /\ InTrace(i, "sendConfirmation", "start")

\* C17: an invocation whose notification send succeeded and whose
\* confirmation send failed is answered 500, not 200; the notification was
\* handed to the relay once and nothing was sent after the failure.
C17_PartialDelivery500 ==
  \A i \in Invocations :
    (InTrace(i, "sendNotification", "ok") /\ InTrace(i, "sendConfirmation", "fail")) =>
      /\ Responded(i)
      /\ inv[i].response.statusCode = 500 /\ inv[i].response.statusCode # 200
      /\ inv[i].response.body =
           "{\"error\":\"Internal server error\",\"details\":\"Message rejected\"}"
      /\ Len(inv[i].mails) = 2 /\ Len(inv[i].messageIds) = 1
      /\ Len(SelectSeq(inv[i].mails, LAMBDA mail : IsNotification(i, mail))) = 1
      /\ inv[i].trace[Len(inv[i].trace)] = <<"sendConfirmation", "fail">>
\* the relay accepted the notification and rejected the confirmation
C17_Witness ==
  \E i \in Invocations :
    /\ InTrace(i, "sendNotification", "ok") /\ InTrace(i, "sendConfirmation", "fail")
    /\ inv[i].messageIds # <<>> /\ inv[i].response.statusCode = 500

\* a complete submission without a token, to a deployment without a
\* verification secret and with every mail setting, that the rate limiter
\* admitted and whose relay check and two sends succeeded
DeliveredInFull(i) ==
  /\ Responded(i) /\ inv[i].event.httpMethod = "POST"
  /\ Checked(i) /\ inv[i].rateLimitResult.allowed
  /\ inv[i].event.body.kind = "object"
  /\ \A f \in {inv[i].event.body.name, inv[i].event.body.email,
               inv[i].event.body.subject, inv[i].event.body.message} :
       f \notin {Undefined, ""}
  /\ inv[i].event.body.recaptchaToken = Undefined
  /\ env["RECAPTCHA_SECRET_KEY"] = Undefined
  /\ ~SettingMissing
  /\ InTrace(i, "relayVerify", "ok")
  /\ InTrace(i, "sendNotification", "ok") /\ InTrace(i, "sendConfirmation", "ok")
\* C18: such a submission is answered 200 with success = true and the
\* message identifier the relay gave to the first send, the notification.
C18_SuccessNotificationId ==
  \A i \in Invocations :
    DeliveredInFull(i) =>
      /\ inv[i].response.statusCode = 200
      /\ Len(inv[i].messageIds) = 2
      /\ inv[i].response.body =
           "{\"message\":\"Email sent successfully\",\"success\":true,\"messageId\":\""
             \o inv[i].messageIds[1] \o "\"}"
\* the two sends were given different identifiers
C18_Witness ==
  \E i \in Invocations :
    /\ DeliveredInFull(i)
    /\ inv[i].messageIds[1] # inv[i].messageIds[2]
    /\ inv[i].response.statusCode = 200

\* C19: an OPTIONS request, whatever its body and headers, is answered 200
\* with a body of length zero and the three CORS headers.
C19_OptionsEmptyBody ==
  \A i \in Invocations :
    (Responded(i) /\ inv[i].event.httpMethod = "OPTIONS") =>
      /\ inv[i].response.statusCode = 200
      /\ inv[i].response.body = ""
      /\ inv[i].response.headers = getCorsHeaders

\* C20: a request whose method is neither POST nor OPTIONS is answered 405
\* with the body {"error":"Method not allowed"}, whatever else it carries,
\* and nothing else is done for it.
C20_OtherMethods405 ==
  \A i \in Invocations :
    (inv[i].pc # "idle" /\ inv[i].event.httpMethod \notin {"POST", "OPTIONS"}) =>
      /\ Responded(i)
      /\ inv[i].response.statusCode = 405
      /\ inv[i].response.body = "{\"error\":\"Method not allowed\"}"
      /\ ~Checked(i) /\ inv[i].fetchCalls = 0 /\ inv[i].mails = <<>>
\* a PUT that carries a complete submission
C20_Witness ==
  \E i \in Invocations :
    /\ Responded(i) /\ inv[i].event.httpMethod = "PUT"
    /\ inv[i].event.body = CompleteBody(Undefined)
    /\ inv[i].response.statusCode = 405

\* s occurs in text
Contains(text, s) ==
  \E n \in 1..(Len(text) - Len(s) + 1) : SubSeq(text, n, n + Len(s) - 1) = s
\* text is a JSON object whose first member is a non-empty string "error"
HasErrorField(text) ==
  /\ Len(text) > 12
  /\ SubSeq(text, 1, 10) = "{\"error\":\""
  /\ SubSeq(text, 11, 11) # "\""
  /\ SubSeq(text, Len(text), Len(text)) = "}"
\* the stages whose failure is a thrown exception, or a rejected await
Throwing == {"parse", "validate", "config", "relayVerify", "sendNotification",
             "sendConfirmation"}
\* C21: an invocation returns at most one response, an invocation that has
\* ended has returned exactly one (no failure of any stage ends it without),
\* and every response that is not 2xx has a JSON body with a non-empty
\* error member.
C21_NoErrorEscapes ==
  \A i \in Invocations :
    /\ inv[i].responses <= 1
    /\ inv[i].pc = "done" =>
         /\ inv[i].responses = 1
         /\ inv[i].response.statusCode \in {200, 403, 405, 429, 500}
         /\ inv[i].response.statusCode # 200 => HasErrorField(inv[i].response.body)
    /\ \A stage \in Throwing :
         InTrace(i, stage, "fail") =>
           /\ inv[i].pc = "done" /\ inv[i].responses = 1
           /\ HasErrorField(inv[i].response.body)
\* the second send was rejected, the invocation answered
C21_Witness ==
  \E i \in Invocations :
    /\ InTrace(i, "sendConfirmation", "fail") /\ inv[i].responses = 1
    /\ inv[i].response.statusCode = 500
    /\ HasErrorField(inv[i].response.body)

\* what the relay and the configuration check say when they fail
ProviderMessages == {"Invalid login", "Message rejected", "Missing env vars"}
\* C22: outside development mode no response body carries the message of a
\* relay or configuration failure, nor a details or stack member.
C22_NoDiagnosticDetail ==
  \A i \in Invocations :
    (Responded(i) /\ env["NODE_ENV"] # "development") =>
      /\ \A m \in ProviderMessages : ~Contains(inv[i].response.body, m)
      /\ ~Contains(inv[i].response.body, "\"details\":")
      /\ ~Contains(inv[i].response.body, "\"stack\":")

\* how often t occurs in the sequence s
Occurrences(s, t) == Len(SelectSeq(s, LAMBDA u : u = t))
\* C23: the timestamp of an admitted invocation stays in the store, as
\* often as it was admitted, whatever stage the invocation is in and however
\* it ended, as long as it is inside the window; so the store holds at
\* least the admitted requests of the window, and a request that finds five
\* of them is answered 429 also when none of the five was delivered.
C23_SlotNotRefunded ==
  /\ \A i \in Invocations :
       (Checked(i) /\ inv[i].rateLimitResult.allowed
          /\ clock - seen[i].at < RATE_LIMIT_WINDOW) =>
         /\ inv[i].clientIP \in DOMAIN rateLimitStore
         /\ Occurrences(rateLimitStore[inv[i].clientIP], seen[i].at)
              = Occurrences(admitted[inv[i].clientIP], seen[i].at)
         /\ Occurrences(rateLimitStore[inv[i].clientIP], seen[i].at) >= 1
  /\ \A i \in Invocations :
       (Checked(i) /\ seen[i].recent >= MAX_REQUESTS_PER_WINDOW) =>
         inv[i].response.statusCode = 429
  /\ \A ip \in ClientIds :
       AdmittedInWindow(ip, clock) > 0 =>
         /\ ip \in DOMAIN rateLimitStore
         /\ Len(rateLimitStore[ip]) >= AdmittedInWindow(ip, clock)
\* five submissions were admitted and each was answered 500 for a missing
\* mail setting or 403; the sixth is answered 429
C23_Witness ==
  \E i \in Invocations :
    /\ SettingMissing
    /\ Checked(i) /\ inv[i].response.statusCode = 429
    /\ Len(admitted[inv[i].clientIP]) = MAX_REQUESTS_PER_WINDOW
    /\ Len(rateLimitStore[inv[i].clientIP]) = MAX_REQUESTS_PER_WINDOW

Suspended(i) ==
  inv[i].pc \in {"awaitRecaptcha", "awaitVerify", "awaitNotification", "awaitConfirmation"}
\* C24: with invocations suspended and resumed in any order, the part of the
\* stored sequence of a client that lies inside the window is exactly the
\* sequence of its admissions inside the window (none lost, none counted
\* twice), and it has at most 5 elements.
C24_InterleavedAdmissions ==
  \A ip \in ClientIds :
    LET stored == IF ip \in DOMAIN rateLimitStore THEN rateLimitStore[ip] ELSE <<>>
        storedInWindow == SelectSeq(stored, LAMBDA t : clock - t < RATE_LIMIT_WINDOW)
    IN /\ storedInWindow = AdmittedRecently(ip, clock)
       /\ Len(storedInWindow) <= MAX_REQUESTS_PER_WINDOW
       /\ Cardinality({i \in Invocations : Checked(i) /\ inv[i].clientIP = ip
                         /\ inv[i].rateLimitResult.allowed /\ Suspended(i)
                         /\ clock - seen[i].at < RATE_LIMIT_WINDOW})
            <= Len(storedInWindow)
\* one invocation is suspended in its second send, admitted before four
\* others, while the sixth of the window has been answered 429
C24_Witness ==
  \E i, j \in Invocations :
    /\ i # j /\ inv[i].pc = "awaitConfirmation"
    /\ Responded(j) /\ inv[j].response.statusCode = 429
    /\ seen[i].at <= seen[j].at
    /\ Len(rateLimitStore[inv[i].clientIP]) = MAX_REQUESTS_PER_WINDOW

HeaderLess(i) ==
  /\ inv[i].event.headers["x-forwarded-for"] \in {Undefined, ""}
  /\ inv[i].event.headers["client-ip"] \in {Undefined, ""}
\* C25: the key of the rate limiter is the x-forwarded-for value as it came
\* if it is not empty, else the client-ip value if it is not empty, else
\* "unknown"; requests without both are counted under "unknown" together,
\* and one that finds five admitted there in the window is answered 429.
C25_ClientIdentifier ==
  \A i \in Invocations :
    Checked(i) =>
      LET forwarded == inv[i].event.headers["x-forwarded-for"]
          second == inv[i].event.headers["client-ip"]
      IN /\ forwarded \notin {Undefined, ""} => inv[i].clientIP = forwarded
         /\ (forwarded \in {Undefined, ""} /\ second \notin {Undefined, ""}) =>
              inv[i].clientIP = second
         /\ HeaderLess(i) =>
              /\ inv[i].clientIP = "unknown"
              /\ inv[i].rateLimitResult.allowed
                   <=> AdmittedInWindow("unknown", seen[i].at)
                         - (IF inv[i].rateLimitResult.allowed THEN 1 ELSE 0)
                         < MAX_REQUESTS_PER_WINDOW
              /\ ~inv[i].rateLimitResult.allowed => inv[i].response.statusCode = 429
         /\ inv[i].rateLimitResult.allowed => inv[i].clientIP \in DOMAIN rateLimitStore
\* a request with an empty x-forwarded-for and no client-ip is answered 429
\* after five requests were admitted under "unknown"; a forwarding chain is
\* a key of the store as it came
C25_Witness ==
  \E i \in Invocations :
    /\ inv[i].event.headers = RequestHeaders("", Undefined)
    /\ Checked(i) /\ inv[i].response.statusCode = 429
    /\ Len(admitted["unknown"]) = MAX_REQUESTS_PER_WINDOW
    /\ "203.0.113.7, 10.0.0.1" \in DOMAIN rateLimitStore

HasCorsHeaders(headers) ==
  /\ {"Access-Control-Allow-Origin", "Access-Control-Allow-Headers",
      "Access-Control-Allow-Methods"} \subseteq DOMAIN headers
  /\ headers["Access-Control-Allow-Origin"] = "*"
  /\ headers["Access-Control-Allow-Headers"] = "Content-Type"
  /\ headers["Access-Control-Allow-Methods"] = "POST, OPTIONS"
\* C26: every response carries the three CORS headers with their values,
\* the 429 with its three rate-limit headers beside them.
C26_CorsHeaders ==
  \A i \in Invocations :
    Responded(i) =>
      /\ HasCorsHeaders(inv[i].response.headers)
      /\ inv[i].response.statusCode = 429 =>
           /\ Cardinality(DOMAIN inv[i].response.headers) = 6
           /\ inv[i].response.headers["X-RateLimit-Limit"] = "5"
           /\ inv[i].response.headers["X-RateLimit-Remaining"] = "0"
      /\ inv[i].response.statusCode # 429 =>
           Cardinality(DOMAIN inv[i].response.headers) = 3
\* a 429 with the CORS headers
C26_Witness ==
  \E i \in Invocations :
    /\ Responded(i) /\ inv[i].response.statusCode = 429
    /\ HasCorsHeaders(inv[i].response.headers)
    /\ "X-RateLimit-Reset" \in DOMAIN inv[i].response.headers

\* C27: an admitted check made at time now returns allowed = true,
\* remaining = 5 - (the admitted requests of the window, this one
\* included), which is in 0..4 and is 4 when the window was empty, and
\* resetTime = now + 3,600,000.
C27_AdmittedResult ==
  \A i \in Invocations :
    (Checked(i) /\ inv[i].rateLimitResult.allowed) =>
      /\ inv[i].rateLimitResult.remaining = 5 - (seen[i].recent + 1)
      /\ inv[i].rateLimitResult.remaining \in 0..4
      /\ seen[i].recent = 0 => inv[i].rateLimitResult.remaining = 4
      /\ inv[i].rateLimitResult.resetTime = seen[i].at + 3600000
\* the fifth request of a window that does not start at the epoch
C27_Witness ==
  \E i \in Invocations :
    /\ Checked(i) /\ inv[i].rateLimitResult.allowed
    /\ inv[i].rateLimitResult.remaining = 0
    /\ seen[i].oldest > 0
    /\ Len(admitted[inv[i].clientIP]) > MAX_REQUESTS_PER_WINDOW

\* C28: after a check of a client made at time now, admitted or rejected,
\* every timestamp stored for the client is less than 3,600,000 ms older
\* than now.
C28_StoredInWindow ==
  \A i \in Invocations :
    Checked(i) =>
      /\ inv[i].clientIP \in DOMAIN rateLimitStore
      /\ \A n \in 1..Len(rateLimitStore[inv[i].clientIP]) :
           seen[i].at - rateLimitStore[inv[i].clientIP][n] < 3600000
\* a check that pruned: the client has admissions that are no longer stored
C28_Witness ==
  \E i \in Invocations :
    /\ Checked(i) /\ seen[i].at = clock
    /\ \E n \in 1..Len(admitted[inv[i].clientIP]) :
         clock - admitted[inv[i].clientIP][n] >= 3600000
    /\ Len(rateLimitStore[inv[i].clientIP]) < Len(admitted[inv[i].clientIP])

\* C29: every stored sequence has between 1 and 5 timestamps, and a client
\* that was ever admitted has a key in the store from then on.
C29_StoreShape ==
  /\ \A ip \in DOMAIN rateLimitStore :
       /\ Len(rateLimitStore[ip]) >= 1
       /\ Len(rateLimitStore[ip]) <= 5
  /\ \A ip \in ClientIds : admitted[ip] # <<>> => ip \in DOMAIN rateLimitStore
  /\ \A i \in Invocations : Checked(i) => inv[i].clientIP \in DOMAIN rateLimitStore
\* a key with five timestamps, all of them expired, is still there
C29_Witness ==
  \E ip \in DOMAIN rateLimitStore :
    /\ Len(rateLimitStore[ip]) = 5
    /\ \A n \in 1..5 : clock - rateLimitStore[ip][n] >= 3600000

Stages == {"method", "rateLimit", "parse", "validate", "verify", "config",
           "relayVerify", "sendNotification", "sendConfirmation"}
\* how often the invocation has entered the stage
Entered(i, stage) ==
  Cardinality({n \in 1..Len(inv[i].trace) : inv[i].trace[n] = <<stage, "start">>})
\* C30: when every external call returns or fails, an invocation that is
\* waiting for one is eventually answered; an invocation enters each stage
\* at most once, in the order of the stages, and returns one response.
C30_Terminates ==
  /\ [](\A i \in Invocations :
          /\ \A stage \in Stages : Entered(i, stage) <= 1
          /\ \A n \in 1..Len(inv[i].trace) : inv[i].trace[n][1] \in Stages
          /\ Len(inv[i].trace) <= 2 * Cardinality(Stages)
          /\ inv[i].responses <= 1
          /\ Responded(i) => inv[i].responses = 1)
  /\ \A i \in Invocations : Suspended(i) ~> Responded(i)
\* an invocation that went through every stage and was answered
C30_Witness ==
  \E i \in Invocations :
    /\ Responded(i) /\ inv[i].responses = 1
    /\ \A stage \in Stages : Entered(i, stage) = 1

\* C31: an invocation hands a message to the relay only if it was a POST,
\* the rate limiter admitted it, its body parsed and had the four fields,
\* verification gave success = true and no score below 0.5, the six mail
\* settings were present and the relay check succeeded.
C31_MailOnlyWhenQualified ==
  \A i \in Invocations :
    inv[i].mails # <<>> =>
      /\ inv[i].event.httpMethod = "POST"
      /\ Checked(i) /\ inv[i].rateLimitResult.allowed
      /\ inv[i].event.body.kind = "object"
      /\ \A f \in {inv[i].event.body.name, inv[i].event.body.email,
                   inv[i].event.body.subject, inv[i].event.body.message} :
           f \notin {Undefined, ""}
      /\ inv[i].recaptchaResult.success
      /\ inv[i].recaptchaResult.score = NoNumber
           \/ inv[i].recaptchaResult.score >= 500
      /\ ~SettingMissing
      /\ InTrace(i, "relayVerify", "ok")

\* the step is handler starting for invocation i and nothing else
StartOf(i) ==
  /\ inv[i].pc \in {"idle", "done"}
  /\ inv'[i].pc # "idle"
  /\ \A j \in Invocations \ {i} : inv'[j] = inv[j]
  /\ clock' = clock
  /\ <<inv[i], seen[i], rateLimitStore>> # <<inv[i], seen[i], rateLimitStore>>'
\* C32: a step in which checkRateLimit rejects leaves the whole store as it
\* was; and a client rejected again before being admitted is given the
\* resetTime of the earlier rejection.
C32_RejectionLeavesStore ==
  [][\A i \in Invocations :
       (StartOf(i) /\ inv'[i].rateLimitResult # NoRateLimit
          /\ ~inv'[i].rateLimitResult.allowed) =>
         /\ rateLimitStore' = rateLimitStore
         /\ lastReset[inv'[i].clientIP] # -1 =>
              inv'[i].rateLimitResult.resetTime = lastReset[inv'[i].clientIP]]_vars
\* a client rejected after time has passed since an earlier rejection of it
C32_Witness ==
  \E i \in Invocations :
    /\ Checked(i) /\ ~inv[i].rateLimitResult.allowed
    /\ seen[i].reset = inv[i].rateLimitResult.resetTime
    /\ seen[i].at > seen[i].oldest + 1
    /\ Len(rateLimitStore[inv[i].clientIP]) = MAX_REQUESTS_PER_WINDOW

\* what the store holds for a client, <<>> if it has no key
Stored(store, ip) == IF ip \in DOMAIN store THEN store[ip] ELSE <<>>
\* C33: a step of the handler for a client changes at most the sequence
\* stored for that client; and whether a check admits depends on the
\* admitted requests of its own client inside the window only: it admits
\* exactly when there are fewer than 5 of them.
C33_KeyIsolation ==
  /\ [](\A i \in Invocations :
          Checked(i) =>
            (inv[i].rateLimitResult.allowed <=> seen[i].recent < MAX_REQUESTS_PER_WINDOW))
  /\ [][\A i \in Invocations :
          StartOf(i) =>
            \A ip \in ClientIds \cup DOMAIN rateLimitStore \cup DOMAIN rateLimitStore' :
              ip # inv'[i].clientIP =>
                Stored(rateLimitStore', ip) = Stored(rateLimitStore, ip)]_vars
\* a client is admitted as the first of its window while another client
\* has used its five requests and a third has a key as well
C33_Witness ==
  \E i \in Invocations :
    /\ Checked(i) /\ inv[i].rateLimitResult.allowed /\ seen[i].recent = 0
    /\ Cardinality(DOMAIN rateLimitStore) = 3
    /\ \E ip \in DOMAIN rateLimitStore :
         ip # inv[i].clientIP /\ Len(rateLimitStore[ip]) = MAX_REQUESTS_PER_WINDOW

\* C34: an invocation whose method is not POST is answered at the method
\* check: the rate limiter is not asked, no call goes to the verification
\* service, no transport is created and no message sent; and the step that
\* handles it leaves the store as it was.
C34_OtherMethodsNoEffect ==
  /\ [](\A i \in Invocations :
          (inv[i].pc # "idle" /\ inv[i].event.httpMethod # "POST") =>
            /\ Responded(i)
            /\ inv[i].trace = <<<<"method", "start">>, <<"method", "end">>>>
            /\ ~Checked(i) /\ seen[i] = NotSeen /\ inv[i].clientIP = Undefined
            /\ inv[i].fetchCalls = 0 /\ ~inv[i].fetchPending
            /\ ~inv[i].transporter /\ inv[i].transports = 0 /\ inv[i].mails = <<>>)
  /\ [][\A i \in Invocations :
          (StartOf(i) /\ inv'[i].event.httpMethod # "POST") =>
            /\ rateLimitStore' = rateLimitStore
            /\ admitted' = admitted /\ lastReset' = lastReset]_vars
\* an OPTIONS request that carries the headers of a client and a complete
\* submission
C34_Witness ==
  \E i \in Invocations :
    /\ Responded(i) /\ inv[i].event.httpMethod = "OPTIONS"
    /\ inv[i].event.headers["x-forwarded-for"] = "203.0.113.7"
    /\ inv[i].event.body = CompleteBody(Undefined)
    /\ rateLimitStore = EmptyStore

\* the control is absent or holds nothing but spaces
Blank(v) == v = Undefined \/ \A n \in 1..Len(v) : SubSeq(v, n, n) = " "
\* the request of a submission has been sent and has not come back
InFlight(attempt) == attempt.pc \in {"awaitFetch", "awaitJson"}
Submissions == {form} \cup {site.detached[k] : k \in 1..Len(site.detached)}
\* C35: a submission with a blank field shows the error and sends nothing;
\* the submit button of a submission that sends is disabled while the
\* submission is in flight, also when the page has been rendered again
\* meanwhile, one request is sent for it, and when the attempt has ended
\* (success, server error, or a thrown request) that button is enabled again.
C35_FormSubmission ==
  /\ (form.outcome # "none" \/ Pending(form)) =>
       ((\E f \in DOMAIN form.submitted : Blank(form.submitted[f]))
          <=> form.outcome = "invalid")
  /\ form.outcome = "invalid" =>
       /\ form.requests = 0 /\ form.request = Undefined /\ form.pc = "idle"
       /\ form.status.className = "form-status form-status--error"
       /\ Contains(form.status.innerHTML, "Please fill in all fields.")
       /\ ~form.submitBtn.disabled
  /\ \A attempt \in Submissions :
       /\ Pending(attempt) => attempt.submitBtn.disabled /\ attempt.outcome = "none"
       /\ InFlight(attempt) => attempt.requests = 1
       /\ attempt.requests <= 1
  /\ \A attempt \in {form, site.ended} :
       attempt.outcome \in {"success", "failed"} =>
         /\ attempt.pc = "idle" /\ attempt.requests = 1
         /\ ~attempt.submitBtn.disabled
         /\ Contains(attempt.submitBtn.innerHTML, "Send Message")
\* a request threw after the page was rendered again, and the button of the
\* submission is enabled again; another submission has succeeded on the page
C35_Witness ==
  /\ site.ended.outcome = "failed" /\ site.ended.requests = 1
  /\ Contains(site.ended.status.innerHTML, "Error: Failed to fetch")
  /\ ~site.ended.submitBtn.disabled
  /\ form.outcome = "success" /\ ~form.submitBtn.disabled

Chosen == {"auto", "light", "dark"}
Toggled == Len(theme.recent) > 1
\* every toggle moved one step along auto -> light -> dark -> auto, and three
\* toggles from one of the three themes came back to it
ThemeCycle ==
  /\ \A n \in 1..(Len(theme.recent) - 1) :
       /\ theme.recent[n] = "auto" => theme.recent[n + 1] = "light"
       /\ theme.recent[n] = "light" => theme.recent[n + 1] = "dark"
       /\ theme.recent[n] = "dark" => theme.recent[n + 1] = "auto"
  /\ Len(theme.recent) = 4 /\ theme.recent[1] \in Chosen =>
       theme.recent[4] = theme.recent[1]
\* after a toggle the stored theme is the one applied to the document
ThemeApplied ==
  Toggled =>
    /\ theme.stored = theme.recent[Len(theme.recent)]
    /\ theme.stored \in Chosen
    /\ theme.colorScheme = (IF theme.stored = "auto" THEN "light dark" ELSE theme.stored)
\* a toggle leaves the icon showing the theme it stored
ThemeShown ==
  theme'.recent # theme.recent =>
    /\ theme'.icon.src = (CASE theme'.stored = "auto" -> "assets/scheme/scheme-device.svg"
                            [] theme'.stored = "light" -> "assets/scheme/scheme-light.svg"
                            [] OTHER -> "assets/scheme/scheme-dark.svg")
    /\ theme'.icon.alt = theme'.stored \o " theme"
\* C36 as stated: the toggle cycles auto -> light -> dark -> auto, every
\* stored value outside the three themes is followed by auto, and the stored
\* theme is the one applied and shown.
C36_ThemeCycleAsStated ==
  /\ [](/\ ThemeCycle
        /\ Toggled /\ theme.found # Undefined /\ theme.found \notin Chosen =>
             theme.stored = "auto"
        /\ ThemeApplied)
  /\ [][ThemeShown]_vars
\* C36: the toggle cycles auto -> light -> dark -> auto; a non-empty stored
\* value outside the three themes is followed by auto, an absent or empty
\* stored value counts as auto and is followed by light; after every toggle
\* the stored theme is the one applied to the document and shown by the icon.
C36_ThemeCycle ==
  /\ [](/\ ThemeCycle
        /\ Toggled /\ theme.found \notin Chosen \cup {Undefined, ""} =>
             theme.stored = "auto"
        /\ Toggled /\ theme.found \in {Undefined, ""} => theme.stored = "light"
        /\ ThemeApplied)
  /\ [][ThemeShown]_vars
\* three toggles from auto are back at auto, stored and shown
C36_Witness ==
  /\ Len(theme.recent) = 4 /\ theme.recent[1] = "auto" /\ theme.recent[4] = "auto"
  /\ theme.found = "dark" /\ theme.stored = "auto"
  /\ theme.colorScheme = "light dark"
  /\ theme.icon.alt = "auto theme"
=============================================================================
